---------------------------- MODULE Spec2Model ----------------------------
(***************************************************************************)
(* A model of the GenBoil task runner (src/index.js): task selection,      *)
(* the confirmation wizard, placeholder resolution, dynamic task loading   *)
(* and execution, and the fail-fast run controller.                        *)
(*                                                                         *)
(* JavaScript strings are sequences of one-character strings, so that      *)
(* split, trim and the placeholder regular expression are computed         *)
(* character by character.  JavaScript values are tagged records.          *)
(***************************************************************************)
EXTENDS Integers, Sequences, FiniteSets

(***************************************************************************)
(* Bounds of the model.                                                    *)
(***************************************************************************)
\* The largest number of task definitions in config.tasks.
MaxTasks == 3
\* The largest number of comma-separated tokens in a --tasks argument, and of
\* --tasks arguments on a command line.
MaxCliIds == 2
\* The largest number of pieces a resolved string is assembled from.
MaxPieces == 2

(***************************************************************************)
(* JavaScript values.  A character that a TLA+ string cannot hold is       *)
(* written as the name of its code point, "U+00A0".                        *)
(***************************************************************************)
Undef == [t |-> "undefined"]
Null == [t |-> "null"]
Bool(b) == [t |-> "boolean", b |-> b]
Num(n) == [t |-> "number", n |-> n]
\* A number that is no small integer (Number.MAX_VALUE, NaN): the text
\* Number::toString gives it, and whether it is truthy.
NumLit(text, nonzero) == [t |-> "number", text |-> text, nonzero |-> nonzero]
Str(s) == [t |-> "string", s |-> s]
Arr(items) == [t |-> "array", items |-> items]
\* An object is the sequence of its own enumerable properties, in for...in order.
Obj(entries) == [t |-> "object", entries |-> entries]
Prop(k, v) == [k |-> k, v |-> v]
\* A built-in function object, with its own properties name and length.
Native(name, length) == [t |-> "function", name |-> name, length |-> length]
\* The prototype object of a built-in constructor: Object.prototype, ...
Prototype(of) == [t |-> "prototype", of |-> of]
\* The outcome of an evaluation that throws `error`.
Abrupt(error) == [t |-> "throw", error |-> error]

\* ToBoolean: what `o &&` and `if (x)` test.
Truthy(v) ==
  CASE v.t = "undefined" -> FALSE
    [] v.t = "null" -> FALSE
    [] v.t = "boolean" -> v.b
    [] v.t = "number" -> IF "n" \in DOMAIN v THEN v.n # 0 ELSE v.nonzero
    [] v.t = "string" -> v.s # <<>>
    [] OTHER -> TRUE

(***************************************************************************)
(* Property names.                                                         *)
(***************************************************************************)
K_id == <<"i", "d">>
K_description == <<"d", "e", "s", "c", "r", "i", "p", "t", "i", "o", "n">>
K_enabled == <<"e", "n", "a", "b", "l", "e", "d">>
K_params == <<"p", "a", "r", "a", "m", "s">>
K_tasks == <<"t", "a", "s", "k", "s">>
K_project == <<"p", "r", "o", "j", "e", "c", "t">>
K_name == <<"n", "a", "m", "e">>
K_stack == <<"s", "t", "a", "c", "k">>
K_message == <<"m", "e", "s", "s", "a", "g", "e">>
K_git == <<"g", "i", "t">>
K_commit == <<"c", "o", "m", "m", "i", "t">>
LengthKey == <<"l", "e", "n", "g", "t", "h">>
ProtoKey == <<"_", "_", "p", "r", "o", "t", "o", "_", "_">>

\* The TypeError the runtime raises: a value that cannot be converted to a
\* string, a property read of a restricted function property, a method that
\* is not there.
TypeErrorObject ==
  Obj(<<Prop(K_name, Str(<<"T", "y", "p", "e", "E", "r", "r", "o", "r">>))>>)

Digits == <<"0", "1", "2", "3", "4", "5", "6", "7", "8", "9">>
IsDigit(c) == \E d \in 1..10 : Digits[d] = c
DigitValue(c) == (CHOOSE d \in 1..10 : Digits[d] = c) - 1

RECURSIVE NatToChars(_)
\* Number::toString for a non-negative integer.
NatToChars(n) ==
  IF n < 10 THEN <<Digits[n + 1]>>
  ELSE NatToChars(n \div 10) \o <<Digits[(n % 10) + 1]>>

NumToChars(n) == IF n < 0 THEN <<"-">> \o NatToChars(0 - n) ELSE NatToChars(n)

RECURSIVE CharsToNat(_)
CharsToNat(s) ==
  IF s = <<>> THEN 0
  ELSE 10 * CharsToNat(SubSeq(s, 1, Len(s) - 1)) + DigitValue(s[Len(s)])

\* A canonical array index: "0", or digits without a leading zero.
IsIndex(key) ==
  /\ key # <<>>
  /\ \A i \in 1..Len(key) : IsDigit(key[i])
  /\ (Len(key) > 1 => key[1] # "0")

RECURSIVE FindProp(_, _, _)
\* The value of own property `key` among entries[i..], or undefined.
FindProp(entries, key, i) ==
  IF i > Len(entries) THEN Undef
  ELSE IF entries[i].k = key THEN entries[i].v
  ELSE FindProp(entries, key, i + 1)

(***************************************************************************)
(* The built-in objects a property read reaches through the prototype      *)
(* chain of a value of the configuration document (the string-keyed        *)
(* properties of the built-ins of Node.js 20).                             *)
(***************************************************************************)
\* The constructor Object, Array, String, Number, Boolean or Function.
Constructor(of) ==
  Native(CASE of = "Object" -> <<"O", "b", "j", "e", "c", "t">>
           [] of = "Array" -> <<"A", "r", "r", "a", "y">>
           [] of = "String" -> <<"S", "t", "r", "i", "n", "g">>
           [] of = "Number" -> <<"N", "u", "m", "b", "e", "r">>
           [] of = "Boolean" -> <<"B", "o", "o", "l", "e", "a", "n">>
           [] of = "Function" -> <<"F", "u", "n", "c", "t", "i", "o", "n">>,
         1)

\* A method: a property holding the built-in function of that name.
Method(name, length) == Prop(name, Native(name, length))

\* The own data properties of the prototype object of a constructor.
Members ==
  [of \in {"Object", "Array", "String", "Number", "Boolean", "Function"} |->
  CASE of = "Object" ->
         <<Prop(<<"c", "o", "n", "s", "t", "r", "u", "c", "t", "o", "r">>, Constructor("Object")),
           Method(<<"_", "_", "d", "e", "f", "i", "n", "e", "G", "e", "t", "t", "e", "r", "_", "_">>, 2),
           Method(<<"_", "_", "d", "e", "f", "i", "n", "e", "S", "e", "t", "t", "e", "r", "_", "_">>, 2),
           Method(<<"h", "a", "s", "O", "w", "n", "P", "r", "o", "p", "e", "r", "t", "y">>, 1),
           Method(<<"_", "_", "l", "o", "o", "k", "u", "p", "G", "e", "t", "t", "e", "r", "_", "_">>, 1),
           Method(<<"_", "_", "l", "o", "o", "k", "u", "p", "S", "e", "t", "t", "e", "r", "_", "_">>, 1),
           Method(<<"i", "s", "P", "r", "o", "t", "o", "t", "y", "p", "e", "O", "f">>, 1),
           Method(<<"p", "r", "o", "p", "e", "r", "t", "y", "I", "s", "E", "n", "u", "m", "e", "r", "a", "b", "l", "e">>, 1),
           Method(<<"t", "o", "S", "t", "r", "i", "n", "g">>, 0),
           Method(<<"v", "a", "l", "u", "e", "O", "f">>, 0),
           Method(<<"t", "o", "L", "o", "c", "a", "l", "e", "S", "t", "r", "i", "n", "g">>, 0)>>
    [] of = "Array" ->
         <<Prop(<<"c", "o", "n", "s", "t", "r", "u", "c", "t", "o", "r">>, Constructor("Array")),
           Prop(LengthKey, Num(0)), Method(<<"a", "t">>, 1),
           Method(<<"c", "o", "n", "c", "a", "t">>, 1),
           Method(<<"c", "o", "p", "y", "W", "i", "t", "h", "i", "n">>, 2),
           Method(<<"f", "i", "l", "l">>, 1),
           Method(<<"f", "i", "n", "d">>, 1),
           Method(<<"f", "i", "n", "d", "I", "n", "d", "e", "x">>, 1),
           Method(<<"f", "i", "n", "d", "L", "a", "s", "t">>, 1),
           Method(<<"f", "i", "n", "d", "L", "a", "s", "t", "I", "n", "d", "e", "x">>, 1),
           Method(<<"l", "a", "s", "t", "I", "n", "d", "e", "x", "O", "f">>, 1),
           Method(<<"p", "o", "p">>, 0), Method(<<"p", "u", "s", "h">>, 1),
           Method(<<"r", "e", "v", "e", "r", "s", "e">>, 0),
           Method(<<"s", "h", "i", "f", "t">>, 0),
           Method(<<"u", "n", "s", "h", "i", "f", "t">>, 1),
           Method(<<"s", "l", "i", "c", "e">>, 2),
           Method(<<"s", "o", "r", "t">>, 1),
           Method(<<"s", "p", "l", "i", "c", "e">>, 2),
           Method(<<"i", "n", "c", "l", "u", "d", "e", "s">>, 1),
           Method(<<"i", "n", "d", "e", "x", "O", "f">>, 1),
           Method(<<"j", "o", "i", "n">>, 1),
           Method(<<"k", "e", "y", "s">>, 0),
           Method(<<"e", "n", "t", "r", "i", "e", "s">>, 0),
           Method(<<"v", "a", "l", "u", "e", "s">>, 0),
           Method(<<"f", "o", "r", "E", "a", "c", "h">>, 1),
           Method(<<"f", "i", "l", "t", "e", "r">>, 1),
           Method(<<"f", "l", "a", "t">>, 0),
           Method(<<"f", "l", "a", "t", "M", "a", "p">>, 1),
           Method(<<"m", "a", "p">>, 1),
           Method(<<"e", "v", "e", "r", "y">>, 1),
           Method(<<"s", "o", "m", "e">>, 1),
           Method(<<"r", "e", "d", "u", "c", "e">>, 1),
           Method(<<"r", "e", "d", "u", "c", "e", "R", "i", "g", "h", "t">>, 1),
           Method(<<"t", "o", "R", "e", "v", "e", "r", "s", "e", "d">>, 0),
           Method(<<"t", "o", "S", "o", "r", "t", "e", "d">>, 1),
           Method(<<"t", "o", "S", "p", "l", "i", "c", "e", "d">>, 2),
           Method(<<"w", "i", "t", "h">>, 2),
           Method(<<"t", "o", "L", "o", "c", "a", "l", "e", "S", "t", "r", "i", "n", "g">>, 0),
           Method(<<"t", "o", "S", "t", "r", "i", "n", "g">>, 0)>>
    [] of = "String" ->
         <<Prop(<<"c", "o", "n", "s", "t", "r", "u", "c", "t", "o", "r">>, Constructor("String")),
           Prop(LengthKey, Num(0)),
           Prop(<<"t", "r", "i", "m", "L", "e", "f", "t">>, Native(<<"t", "r", "i", "m", "S", "t", "a", "r", "t">>, 0)),
           Prop(<<"t", "r", "i", "m", "R", "i", "g", "h", "t">>, Native(<<"t", "r", "i", "m", "E", "n", "d">>, 0)),
           Method(<<"a", "n", "c", "h", "o", "r">>, 1),
           Method(<<"a", "t">>, 1), Method(<<"b", "i", "g">>, 0),
           Method(<<"b", "l", "i", "n", "k">>, 0),
           Method(<<"b", "o", "l", "d">>, 0),
           Method(<<"c", "h", "a", "r", "A", "t">>, 1),
           Method(<<"c", "h", "a", "r", "C", "o", "d", "e", "A", "t">>, 1),
           Method(<<"c", "o", "d", "e", "P", "o", "i", "n", "t", "A", "t">>, 1),
           Method(<<"c", "o", "n", "c", "a", "t">>, 1),
           Method(<<"e", "n", "d", "s", "W", "i", "t", "h">>, 1),
           Method(<<"f", "o", "n", "t", "c", "o", "l", "o", "r">>, 1),
           Method(<<"f", "o", "n", "t", "s", "i", "z", "e">>, 1),
           Method(<<"f", "i", "x", "e", "d">>, 0),
           Method(<<"i", "n", "c", "l", "u", "d", "e", "s">>, 1),
           Method(<<"i", "n", "d", "e", "x", "O", "f">>, 1),
           Method(<<"i", "s", "W", "e", "l", "l", "F", "o", "r", "m", "e", "d">>, 0),
           Method(<<"i", "t", "a", "l", "i", "c", "s">>, 0),
           Method(<<"l", "a", "s", "t", "I", "n", "d", "e", "x", "O", "f">>, 1),
           Method(<<"l", "i", "n", "k">>, 1),
           Method(<<"l", "o", "c", "a", "l", "e", "C", "o", "m", "p", "a", "r", "e">>, 1),
           Method(<<"m", "a", "t", "c", "h">>, 1),
           Method(<<"m", "a", "t", "c", "h", "A", "l", "l">>, 1),
           Method(<<"n", "o", "r", "m", "a", "l", "i", "z", "e">>, 0),
           Method(<<"p", "a", "d", "E", "n", "d">>, 1),
           Method(<<"p", "a", "d", "S", "t", "a", "r", "t">>, 1),
           Method(<<"r", "e", "p", "e", "a", "t">>, 1),
           Method(<<"r", "e", "p", "l", "a", "c", "e">>, 2),
           Method(<<"r", "e", "p", "l", "a", "c", "e", "A", "l", "l">>, 2),
           Method(<<"s", "e", "a", "r", "c", "h">>, 1),
           Method(<<"s", "l", "i", "c", "e">>, 2),
           Method(<<"s", "m", "a", "l", "l">>, 0),
           Method(<<"s", "p", "l", "i", "t">>, 2),
           Method(<<"s", "t", "r", "i", "k", "e">>, 0),
           Method(<<"s", "u", "b">>, 0),
           Method(<<"s", "u", "b", "s", "t", "r">>, 2),
           Method(<<"s", "u", "b", "s", "t", "r", "i", "n", "g">>, 2),
           Method(<<"s", "u", "p">>, 0),
           Method(<<"s", "t", "a", "r", "t", "s", "W", "i", "t", "h">>, 1),
           Method(<<"t", "o", "S", "t", "r", "i", "n", "g">>, 0),
           Method(<<"t", "o", "W", "e", "l", "l", "F", "o", "r", "m", "e", "d">>, 0),
           Method(<<"t", "r", "i", "m">>, 0),
           Method(<<"t", "r", "i", "m", "S", "t", "a", "r", "t">>, 0),
           Method(<<"t", "r", "i", "m", "E", "n", "d">>, 0),
           Method(<<"t", "o", "L", "o", "c", "a", "l", "e", "L", "o", "w", "e", "r", "C", "a", "s", "e">>, 0),
           Method(<<"t", "o", "L", "o", "c", "a", "l", "e", "U", "p", "p", "e", "r", "C", "a", "s", "e">>, 0),
           Method(<<"t", "o", "L", "o", "w", "e", "r", "C", "a", "s", "e">>, 0),
           Method(<<"t", "o", "U", "p", "p", "e", "r", "C", "a", "s", "e">>, 0),
           Method(<<"v", "a", "l", "u", "e", "O", "f">>, 0)>>
    [] of = "Number" ->
         <<Prop(<<"c", "o", "n", "s", "t", "r", "u", "c", "t", "o", "r">>, Constructor("Number")),
           Method(<<"t", "o", "E", "x", "p", "o", "n", "e", "n", "t", "i", "a", "l">>, 1),
           Method(<<"t", "o", "F", "i", "x", "e", "d">>, 1),
           Method(<<"t", "o", "P", "r", "e", "c", "i", "s", "i", "o", "n">>, 1),
           Method(<<"t", "o", "S", "t", "r", "i", "n", "g">>, 1),
           Method(<<"v", "a", "l", "u", "e", "O", "f">>, 0),
           Method(<<"t", "o", "L", "o", "c", "a", "l", "e", "S", "t", "r", "i", "n", "g">>, 0)>>
    [] of = "Boolean" ->
         <<Prop(<<"c", "o", "n", "s", "t", "r", "u", "c", "t", "o", "r">>, Constructor("Boolean")),
           Method(<<"t", "o", "S", "t", "r", "i", "n", "g">>, 0),
           Method(<<"v", "a", "l", "u", "e", "O", "f">>, 0)>>
    [] of = "Function" ->
         <<Prop(<<"c", "o", "n", "s", "t", "r", "u", "c", "t", "o", "r">>, Constructor("Function")),
           Prop(LengthKey, Num(0)), Prop(K_name, Str(<<>>)),
           Method(<<"a", "p", "p", "l", "y">>, 2),
           Method(<<"b", "i", "n", "d">>, 1),
           Method(<<"c", "a", "l", "l">>, 1),
           Method(<<"t", "o", "S", "t", "r", "i", "n", "g">>, 0)>>]

\* The own properties of a constructor, besides name, length and prototype.
Statics ==
  [of \in {"Object", "Array", "String", "Number", "Boolean", "Function", "none"} |->
  CASE of = "Object" ->
         <<Method(<<"a", "s", "s", "i", "g", "n">>, 2),
           Method(<<"c", "r", "e", "a", "t", "e">>, 2),
           Method(<<"d", "e", "f", "i", "n", "e", "P", "r", "o", "p", "e", "r", "t", "i", "e", "s">>, 2),
           Method(<<"d", "e", "f", "i", "n", "e", "P", "r", "o", "p", "e", "r", "t", "y">>, 3),
           Method(<<"e", "n", "t", "r", "i", "e", "s">>, 1),
           Method(<<"f", "r", "e", "e", "z", "e">>, 1),
           Method(<<"f", "r", "o", "m", "E", "n", "t", "r", "i", "e", "s">>, 1),
           Method(<<"g", "e", "t", "O", "w", "n", "P", "r", "o", "p", "e", "r", "t", "y", "D", "e", "s", "c", "r", "i", "p", "t", "o", "r">>, 2),
           Method(<<"g", "e", "t", "O", "w", "n", "P", "r", "o", "p", "e", "r", "t", "y", "D", "e", "s", "c", "r", "i", "p", "t", "o", "r", "s">>, 1),
           Method(<<"g", "e", "t", "O", "w", "n", "P", "r", "o", "p", "e", "r", "t", "y", "N", "a", "m", "e", "s">>, 1),
           Method(<<"g", "e", "t", "O", "w", "n", "P", "r", "o", "p", "e", "r", "t", "y", "S", "y", "m", "b", "o", "l", "s">>, 1),
           Method(<<"g", "e", "t", "P", "r", "o", "t", "o", "t", "y", "p", "e", "O", "f">>, 1),
           Method(<<"h", "a", "s", "O", "w", "n">>, 2),
           Method(<<"i", "s">>, 2),
           Method(<<"i", "s", "E", "x", "t", "e", "n", "s", "i", "b", "l", "e">>, 1),
           Method(<<"i", "s", "F", "r", "o", "z", "e", "n">>, 1),
           Method(<<"i", "s", "S", "e", "a", "l", "e", "d">>, 1),
           Method(<<"k", "e", "y", "s">>, 1),
           Method(<<"p", "r", "e", "v", "e", "n", "t", "E", "x", "t", "e", "n", "s", "i", "o", "n", "s">>, 1),
           Method(<<"s", "e", "a", "l">>, 1),
           Method(<<"s", "e", "t", "P", "r", "o", "t", "o", "t", "y", "p", "e", "O", "f">>, 2),
           Method(<<"v", "a", "l", "u", "e", "s">>, 1)>>
    [] of = "Array" ->
         <<Method(<<"f", "r", "o", "m">>, 1),
           Method(<<"i", "s", "A", "r", "r", "a", "y">>, 1),
           Method(<<"o", "f">>, 0)>>
    [] of = "String" ->
         <<Method(<<"f", "r", "o", "m", "C", "h", "a", "r", "C", "o", "d", "e">>, 1),
           Method(<<"f", "r", "o", "m", "C", "o", "d", "e", "P", "o", "i", "n", "t">>, 1),
           Method(<<"r", "a", "w">>, 1)>>
    [] of = "Number" ->
         <<Prop(<<"E", "P", "S", "I", "L", "O", "N">>, NumLit(<<"2", ".", "2", "2", "0", "4", "4", "6", "0", "4", "9", "2", "5", "0", "3", "1", "3", "e", "-", "1", "6">>, TRUE)),
           Prop(<<"M", "A", "X", "_", "S", "A", "F", "E", "_", "I", "N", "T", "E", "G", "E", "R">>, NumLit(<<"9", "0", "0", "7", "1", "9", "9", "2", "5", "4", "7", "4", "0", "9", "9", "1">>, TRUE)),
           Prop(<<"M", "A", "X", "_", "V", "A", "L", "U", "E">>, NumLit(<<"1", ".", "7", "9", "7", "6", "9", "3", "1", "3", "4", "8", "6", "2", "3", "1", "5", "7", "e", "+", "3", "0", "8">>, TRUE)),
           Prop(<<"M", "I", "N", "_", "S", "A", "F", "E", "_", "I", "N", "T", "E", "G", "E", "R">>, NumLit(<<"-", "9", "0", "0", "7", "1", "9", "9", "2", "5", "4", "7", "4", "0", "9", "9", "1">>, TRUE)),
           Prop(<<"M", "I", "N", "_", "V", "A", "L", "U", "E">>, NumLit(<<"5", "e", "-", "3", "2", "4">>, TRUE)),
           Prop(<<"N", "a", "N">>, NumLit(<<"N", "a", "N">>, FALSE)),
           Prop(<<"N", "E", "G", "A", "T", "I", "V", "E", "_", "I", "N", "F", "I", "N", "I", "T", "Y">>, NumLit(<<"-", "I", "n", "f", "i", "n", "i", "t", "y">>, TRUE)),
           Prop(<<"P", "O", "S", "I", "T", "I", "V", "E", "_", "I", "N", "F", "I", "N", "I", "T", "Y">>, NumLit(<<"I", "n", "f", "i", "n", "i", "t", "y">>, TRUE)),
           Method(<<"i", "s", "F", "i", "n", "i", "t", "e">>, 1),
           Method(<<"i", "s", "I", "n", "t", "e", "g", "e", "r">>, 1),
           Method(<<"i", "s", "N", "a", "N">>, 1),
           Method(<<"i", "s", "S", "a", "f", "e", "I", "n", "t", "e", "g", "e", "r">>, 1),
           Method(<<"p", "a", "r", "s", "e", "F", "l", "o", "a", "t">>, 1),
           Method(<<"p", "a", "r", "s", "e", "I", "n", "t">>, 2)>>
    [] OTHER -> <<>>]

\* The constructor a function value is, or "none".
KindOf(f) ==
  LET Kinds == {"Object", "Array", "String", "Number", "Boolean", "Function"}
  IN IF \E of \in Kinds : Constructor(of) = f
     THEN CHOOSE of \in Kinds : Constructor(of) = f
     ELSE "none"

\* The own property `key` of a value, or undefined when it has none: the
\* properties of an object, length and the indices of an array or a string,
\* name, length, prototype and the static members of a built-in function, the
\* members of a prototype object.
OwnProperty(holder, key) ==
  CASE holder.t = "object" -> FindProp(holder.entries, key, 1)
    [] holder.t = "array" ->
         IF key = LengthKey THEN Num(Len(holder.items))
         ELSE IF IsIndex(key) /\ CharsToNat(key) < Len(holder.items)
              THEN holder.items[CharsToNat(key) + 1]
         ELSE Undef
    [] holder.t = "string" ->
         IF key = LengthKey THEN Num(Len(holder.s))
         ELSE IF IsIndex(key) /\ CharsToNat(key) < Len(holder.s)
              THEN Str(<<holder.s[CharsToNat(key) + 1]>>)
         ELSE Undef
    [] holder.t = "function" ->
         IF key = K_name THEN Str(holder.name)
         ELSE IF key = LengthKey THEN Num(holder.length)
         ELSE IF key = <<"p", "r", "o", "t", "o", "t", "y", "p", "e">>
                 /\ KindOf(holder) # "none"
              THEN Prototype(KindOf(holder))
         ELSE FindProp(Statics[KindOf(holder)], key, 1)
    [] holder.t = "prototype" -> FindProp(Members[holder.of], key, 1)
    [] OTHER -> Undef

\* [[GetPrototypeOf]] of a value (of the wrapper object, for a primitive):
\* the object `__proto__` was assigned on an object that has one, the
\* prototype of its kind otherwise.
ProtoOf(v) ==
  CASE v.t = "object" ->
         IF "proto" \in DOMAIN v THEN v.proto ELSE Prototype("Object")
    [] v.t = "array" -> Prototype("Array")
    [] v.t = "string" -> Prototype("String")
    [] v.t = "number" -> Prototype("Number")
    [] v.t = "boolean" -> Prototype("Boolean")
    [] v.t = "function" -> Prototype("Function")
    [] v.t = "prototype" ->
         IF v.of = "Object" THEN Null ELSE Prototype("Object")

RECURSIVE GetFrom(_, _, _)
\* [[Get]] of `key` from `holder` up its prototype chain, for `receiver`:
\* the accessor __proto__ of Object.prototype gives the receiver's prototype,
\* the accessors caller and arguments of Function.prototype throw.
GetFrom(holder, key, receiver) ==
  IF holder = Null THEN Undef
  ELSE LET own == OwnProperty(holder, key)
       IN IF own # Undef THEN own
          ELSE IF holder = Prototype("Object") /\ key = ProtoKey
               THEN ProtoOf(receiver)
          ELSE IF /\ holder = Prototype("Function")
                  /\ key \in {<<"c", "a", "l", "l", "e", "r">>,
                              <<"a", "r", "g", "u", "m", "e", "n", "t", "s">>}
               THEN Abrupt(TypeErrorObject)
          ELSE GetFrom(ProtoOf(holder), key, receiver)

\* o[key]: an own property or one inherited through the prototype chain; a
\* TypeError on null and undefined.
Get(o, key) ==
  IF o.t \in {"null", "undefined"} THEN Abrupt(TypeErrorObject)
  ELSE GetFrom(o, key, o)

ObjectObject ==
  <<"[", "o", "b", "j", "e", "c", "t", " ", "O", "b", "j", "e", "c", "t", "]">>

RECURSIVE JSToString(_)
RECURSIVE JoinWith(_, _, _)
\* Array.prototype.join(sep) from the i-th item on: null and undefined items
\* are empty, the others are converted, which may throw.
JoinWith(items, sep, i) ==
  IF i > Len(items) THEN Str(<<>>)
  ELSE LET item == IF items[i].t \in {"null", "undefined"} THEN Str(<<>>)
                   ELSE JSToString(items[i])
           rest == JoinWith(items, sep, i + 1)
       IN IF item.t = "throw" THEN item
          ELSE IF rest.t = "throw" THEN rest
          ELSE Str((IF i > 1 THEN sep ELSE <<>>) \o item.s \o rest.s)

\* ToString, which String.prototype.replace applies to what its callback
\* returns and a template literal to what it interpolates: a string, or a
\* TypeError.  An array is joined with ","; an object is converted by the
\* toString it has: Object.prototype.toString when it inherits it, and none
\* when its own property toString (or a null prototype) hides it, which no
\* valueOf makes up for: String() throws.
JSToString(v) ==
  CASE v.t = "string" -> v
    [] v.t = "number" ->
         Str(IF "n" \in DOMAIN v THEN NumToChars(v.n) ELSE v.text)
    [] v.t = "boolean" -> Str(IF v.b THEN <<"t", "r", "u", "e">>
                              ELSE <<"f", "a", "l", "s", "e">>)
    [] v.t = "null" -> Str(<<"n", "u", "l", "l">>)
    [] v.t = "undefined" ->
         Str(<<"u", "n", "d", "e", "f", "i", "n", "e", "d">>)
    [] v.t = "array" -> JoinWith(v.items, <<",">>, 1)
    [] v.t = "object" ->
         IF Get(v, <<"t", "o", "S", "t", "r", "i", "n", "g">>).t = "function"
         THEN Str(ObjectObject)
         ELSE Abrupt(TypeErrorObject)
    [] v.t = "function" ->
         Str(<<"f", "u", "n", "c", "t", "i", "o", "n", " ">> \o v.name
             \o <<"(", ")", " ", "{", " ", "[", "n", "a", "t", "i", "v", "e",
                  " ", "c", "o", "d", "e", "]", " ", "}">>)
    [] v.t = "prototype" ->
         CASE v.of = "Object" -> Str(ObjectObject)
           [] v.of = "Number" -> Str(<<"0">>)
           [] v.of = "Boolean" -> Str(<<"f", "a", "l", "s", "e">>)
           [] v.of = "Function" -> JSToString(Native(<<>>, 0))
           [] OTHER -> Str(<<>>)
    [] v.t = "throw" -> v

(***************************************************************************)
(* String helpers: split, trim.                                            *)
(***************************************************************************)
RECURSIVE SplitFrom(_, _, _, _)
\* String.prototype.split(sep) for a one-character separator: `cur` is the
\* segment being read; an empty string splits into one empty segment.
SplitFrom(s, sep, i, cur) ==
  IF i > Len(s) THEN <<cur>>
  ELSE IF s[i] = sep THEN <<cur>> \o SplitFrom(s, sep, i + 1, <<>>)
  ELSE SplitFrom(s, sep, i + 1, Append(cur, s[i]))

Split(s, sep) == SplitFrom(s, sep, 1, <<>>)

\* What `.` of a regular expression does not match: the LineTerminator code
\* points.
IsLineTerminator(c) == c \in {"\n", "\r", "U+2028", "U+2029"}

\* What String.prototype.trim removes: the WhiteSpace code points (tab,
\* vertical tab, form feed, space, no-break space, the byte order mark and
\* the other space separators of Unicode) and the LineTerminator ones.
IsWhiteSpace(c) ==
  \/ c \in {"\t", "U+000B", "\f", " ", "U+00A0", "U+FEFF", "U+1680", "U+2000",
            "U+2001", "U+2002", "U+2003", "U+2004", "U+2005", "U+2006",
            "U+2007", "U+2008", "U+2009", "U+200A", "U+202F", "U+205F",
            "U+3000"}
  \/ IsLineTerminator(c)

RECURSIVE TrimStart(_)
TrimStart(s) ==
  IF s # <<>> /\ IsWhiteSpace(s[1]) THEN TrimStart(Tail(s)) ELSE s

RECURSIVE TrimEnd(_)
TrimEnd(s) ==
  IF s # <<>> /\ IsWhiteSpace(s[Len(s)]) THEN TrimEnd(SubSeq(s, 1, Len(s) - 1))
  ELSE s

\* String.prototype.trim
Trim(s) == TrimEnd(TrimStart(s))

(***************************************************************************)
(* lookupProperty and resolveParams (src/index.js:37-73).                  *)
(***************************************************************************)
RECURSIVE ReduceLookup(_, _, _)
\* keys.reduce((o, key) => (o && o[key] !== undefined ? o[key] : undefined), o)
\* from the i-th key on; a property read that throws ends the lookup.
ReduceLookup(o, keys, i) ==
  IF i > Len(keys) \/ o.t = "throw" THEN o
  ELSE ReduceLookup(IF Truthy(o) /\ Get(o, keys[i]) # Undef
                    THEN Get(o, keys[i]) ELSE Undef,
                    keys, i + 1)

lookupProperty(obj, path) == ReduceLookup(obj, Split(path, "."), 1)

\* The index of the `}` closing the match of /\$\{(.+?)\}/ that starts at
\* s[i], or 0 when there is no match at i: `.+?` takes at least one
\* character, none of them a line terminator, and as few as possible.
MatchEnd(s, i) ==
  IF i + 1 <= Len(s) /\ s[i] = "$" /\ s[i + 1] = "{"
  THEN LET ends == {j \in (i + 3)..Len(s) :
                      /\ s[j] = "}"
                      /\ \A k \in (i + 2)..(j - 1) : ~IsLineTerminator(s[k])}
       IN IF ends = {} THEN 0
          ELSE CHOOSE j \in ends : \A j2 \in ends : j <= j2
  ELSE 0

\* head followed by rest, or the first of the two that throws.
Then(head, rest) ==
  IF head.t = "throw" THEN head
  ELSE IF rest.t = "throw" THEN rest
  ELSE Str(head.s \o rest.s)

\* The start of the leftmost match of /\$\{(.+?)\}/ in s at or after i, or 0.
NextMatch(s, i) ==
  LET starts == {k \in i..Len(s) : MatchEnd(s, k) > 0}
  IN IF starts = {} THEN 0
     ELSE CHOOSE k \in starts : \A k2 \in starts : k <= k2

RECURSIVE RescanFrom(_, _, _)
\* One more pass of the replacement over an inserted text.
RescanFrom(s, i, config) ==
  LET k == NextMatch(s, i)
      j == MatchEnd(s, k)
      value == lookupProperty(config, Trim(SubSeq(s, k + 2, j - 1)))
  IN IF k = 0 THEN Str(SubSeq(s, i, Len(s)))
     ELSE Then(Str(SubSeq(s, i, k - 1)),
               Then(IF value.t = "throw" THEN value
                    ELSE IF value # Undef THEN JSToString(value)
                    ELSE Str(SubSeq(s, k, j)),
                    RescanFrom(s, j + 1, config)))

\* Replacement scanning the text it inserts for further placeholders.
Replacement_rescans(match, key, config) ==
  LET value == lookupProperty(config, Trim(key))
  IN IF value.t = "throw" THEN value
     ELSE IF value = Undef THEN Str(match)
     ELSE IF JSToString(value).t = "throw" THEN JSToString(value)
     ELSE RescanFrom(JSToString(value).s, 1, config)

\* The replace callback and the conversion of what it returns: the string of
\* the value found, or the placeholder itself when the lookup yields
\* undefined; a TypeError when the lookup or the conversion throws.
Replacement(match, key, config) ==
  LET value == lookupProperty(config, Trim(key))
  IN IF value.t = "throw" THEN value
     ELSE JSToString(IF value # Undef THEN value ELSE Str(match))

RECURSIVE ReplaceFrom(_, _, _)
\* data.replace(/\$\{(.+?)\}/g, callback) from position i: matches are found
\* left to right, the text a callback returns is inserted and never
\* re-scanned; a callback or conversion that throws ends the replace.
ReplaceFrom(s, i, config) ==
  LET k == NextMatch(s, i)
      j == MatchEnd(s, k)
  IN IF k = 0 THEN Str(SubSeq(s, i, Len(s)))
     ELSE Then(Str(SubSeq(s, i, k - 1)),
               Then(Replacement(SubSeq(s, k, j), SubSeq(s, k + 2, j - 1),
                                config),
                    ReplaceFrom(s, j + 1, config)))

RECURSIVE SetPropFrom(_, _, _, _)
\* The own properties `entries` with `key` set to v: in place when the key
\* exists, at the end otherwise.
SetPropFrom(entries, key, v, i) ==
  IF i > Len(entries) THEN <<Prop(key, v)>>
  ELSE IF entries[i].k = key
       THEN <<Prop(key, v)>> \o SubSeq(entries, i + 1, Len(entries))
  ELSE <<entries[i]>> \o SetPropFrom(entries, key, v, i + 1)

\* newObj[key] = v on an object created by {}: an own property is set, except
\* for the key __proto__, which Object.prototype defines as an accessor: its
\* setter makes an object or null the prototype of newObj and ignores every
\* other value; no own property is created.
Assign(newObj, key, v) ==
  IF key = ProtoKey
  THEN IF v.t \in {"object", "array", "null"}
       THEN [t |-> "object", entries |-> newObj.entries, proto |-> v]
       ELSE newObj
  ELSE [newObj EXCEPT !.entries = SetPropFrom(@, key, v, 1)]

RECURSIVE resolveParams(_, _)
RECURSIVE AssignFrom(_, _, _, _)
\* for (const key in data) newObj[key] = resolveParams(data[key], config),
\* from the i-th own property of data on; a resolveParams that throws ends
\* the loop.
AssignFrom(entries, i, config, newObj) ==
  IF i > Len(entries) THEN newObj
  ELSE LET v == resolveParams(entries[i].v, config)
       IN IF v.t = "throw" THEN v
          ELSE AssignFrom(entries, i + 1, config,
                          Assign(newObj, entries[i].k, v))

RECURSIVE MapFrom(_, _, _)
\* data.map(item => resolveParams(item, config)) from the i-th item on.
MapFrom(items, i, config) ==
  IF i > Len(items) THEN Arr(<<>>)
  ELSE LET v == resolveParams(items[i], config)
           rest == MapFrom(items, i + 1, config)
       IN IF v.t = "throw" THEN v
          ELSE IF rest.t = "throw" THEN rest
          ELSE Arr(<<v>> \o rest.items)

\* The value resolveParams returns, or the TypeError it throws.
resolveParams(data, config) ==
  CASE data.t = "string" -> ReplaceFrom(data.s, 1, config)
    [] data.t = "array" -> MapFrom(data.items, 1, config)
    [] data.t = "object" -> AssignFrom(data.entries, 1, config, Obj(<<>>))
    [] OTHER -> data

\* { ...obj, key: v }: a fresh object with obj's own properties and key set.
SpreadWith(obj, key, v) == Obj(SetPropFrom(obj.entries, key, v, 1))

(***************************************************************************)
(* The configuration documents and command lines the runs start from.      *)
(***************************************************************************)
\* The id of the k-th configured task; ids are unique within a document.
TaskIds == <<"a", "b", "c", "d", "e">>

ProjectName == <<"P">>

\* { "toString": 1 }: a value of the document that String() cannot convert.
Unprintable == Obj(<<Prop(<<"t", "o", "S", "t", "r", "i", "n", "g">>, Num(1))>>)

\* "${project.name}"
ProjectNameRef ==
  <<"$", "{", "p", "r", "o", "j", "e", "c", "t", ".", "n", "a", "m", "e", "}">>

\* params of the k-th task: none for even k, a placeholder into the document
\* for odd k: "${project.name}" for the 1st, 5th, ..., "${project.owner}" for
\* the 3rd, 7th, ...
TaskParams(k) ==
  CASE k % 4 = 1 -> <<Prop(K_params, Obj(<<Prop(<<"m">>, Str(ProjectNameRef))>>))>>
    [] k % 4 = 3 ->
         <<Prop(K_params,
                Obj(<<Prop(<<"m">>,
                           Str(<<"$", "{", "p", "r", "o", "j", "e", "c", "t",
                                 ".", "o", "w", "n", "e", "r", "}">>))>>))>>
    [] OTHER -> <<>>

\* description of the k-th task: present unless k is a multiple of 3; it
\* holds a placeholder.
TaskDescription(k) ==
  IF k % 3 = 0 THEN <<>> ELSE <<Prop(K_description, Str(ProjectNameRef))>>

\* git of the k-th task: for even k, a commit message holding a placeholder.
TaskGit(k) ==
  IF k % 2 = 0
  THEN <<Prop(K_git, Obj(<<Prop(K_commit, Str(ProjectNameRef))>>))>>
  ELSE <<>>

\* `enabled` is absent (undefined), true or false.
EnabledChoices == {Undef, Bool(TRUE), Bool(FALSE)}

TaskDefinition(k, enabled) ==
  Obj(<<Prop(K_id, Str(<<TaskIds[k]>>))>>
      \o TaskDescription(k)
      \o (IF enabled = Undef THEN <<>> ELSE <<Prop(K_enabled, enabled)>>)
      \o TaskParams(k)
      \o TaskGit(k))

ConfigDocument(enabledOf, owner) ==
  Obj(<<Prop(K_project, Obj(<<Prop(K_name, Str(ProjectName)),
                              Prop(<<"o", "w", "n", "e", "r">>, owner)>>)),
        Prop(K_tasks, Arr([k \in DOMAIN enabledOf |->
                             TaskDefinition(k, enabledOf[k])]))>>)

\* The documents: every choice of `enabled` for up to MaxTasks tasks with an
\* owner that is a string, and the documents of three tasks or more, none of
\* them with `enabled`, with the owner that cannot be converted.
Configs ==
  {ConfigDocument(e, Str(<<"O">>)) :
     e \in UNION {[1..n -> EnabledChoices] : n \in 0..MaxTasks}}
  \cup {ConfigDocument([k \in 1..n |-> Undef], Unprintable) : n \in 3..MaxTasks}

\* The tokens a --tasks argument is made of: ids in an order other than the
\* document's, an id with a space before and a no-break space after it, an
\* id of no task.
CliTokens == {<<"b">>, <<" ", "a", "U+00A0">>, <<"z">>}

RECURSIVE JoinTokens(_, _)
JoinTokens(tokens, i) ==
  IF i > Len(tokens) THEN <<>>
  ELSE (IF i > 1 THEN <<",">> ELSE <<>>) \o tokens[i] \o JoinTokens(tokens, i + 1)

\* argv.tasks: undefined without --tasks, the string of one --tasks, and the
\* array of the strings of a --tasks given several times (yargs collects the
\* values of a repeated option in an array).
CliTaskArgs ==
  {Undef}
  \cup {Str(JoinTokens(ts, 1)) :
          ts \in UNION {[1..n -> CliTokens] : n \in 0..MaxCliIds}}
  \cup {Arr([k \in DOMAIN ts |-> Str(ts[k])]) :
          ts \in UNION {[1..n -> CliTokens] : n \in 2..MaxCliIds}}

\* What yargs parses the command line into.  --help and --version are
\* options yargs adds itself: given one of them, it prints the text asked for
\* and ends the process with status 0 while `.argv` is evaluated (line 29).
Argvs ==
  [tasks : CliTaskArgs, yes : {Undef, Bool(TRUE)},
   help : {Undef, Bool(TRUE)}, version : {Undef, Bool(TRUE)}]

\* What a handler's run, or the evaluation of its module, may throw: an
\* Error object, a string, null, undefined.
ErrorObject ==
  Obj(<<Prop(K_stack, Str(<<"E">>)), Prop(K_message, Str(<<"E">>))>>)
ThrownValues == {ErrorObject, Str(<<"s">>), Null, Undef}

(***************************************************************************)
(* State.                                                                  *)
(***************************************************************************)
VARIABLES
  config,       \* the configuration document (src/index.js:9)
  argv,         \* the parsed command line (src/index.js:18)
  pc,           \* where main is
  tasksToRun,   \* main's tasksToRun
  cur,          \* the position of the for...of loop in tasksToRun
  phase,        \* per selected task: pending, confirming, resolving, ...
  resolvedTask, \* main's resolvedTask of the current iteration
  result,       \* how the current executeTask settled
  exit,         \* <<>> while the process runs, <<code>> once it has exited
  log,          \* the calls made to the logger
  prompted,     \* ids of the tasks runWizard was called for
  answers,      \* what each of those prompts answered
  resolved,     \* ids of the tasks whose params were resolved
  executed,     \* ids of the tasks executeTask was called for
  invoked,      \* ids of the tasks whose run was invoked
  failures,     \* the tasks that failed: task id, cause, how settled
  rPieces,      \* resolveParams alone: the pieces its input is made of
  rShape,       \* resolveParams alone: the shape of its input
  rData,        \* resolveParams alone: its input
  rConfig,      \* resolveParams alone: the configuration root
  rOut,         \* resolveParams alone: what it returned or threw
  rPc,          \* resolveParams alone: called or not
  gTask,        \* handleGitAction alone: its task
  gGlobal,      \* handleGitAction alone: its globalConfig
  gPc,          \* handleGitAction alone: the step whose subprocess it awaits
  gSettled,     \* handleGitAction alone: the step whose promise has settled
                \* and which handleGitAction has yet to resume from
  gCalls,       \* handleGitAction alone: the command lines given to exec
  gLog,         \* handleGitAction alone: the calls made to the logger
  gDone,        \* handleGitAction alone: the steps whose subprocess succeeded
  gFailed,      \* handleGitAction alone: the steps whose subprocess failed
  gCaught,      \* handleGitAction alone: the errors its catch block caught
  gThrown       \* handleGitAction alone: the errors it raised to its caller

runVars == <<config, argv, pc, tasksToRun, cur, phase, resolvedTask, result,
             exit, log, prompted, answers, resolved, executed, invoked,
             failures>>
resolveVars == <<rPieces, rShape, rData, rConfig, rOut, rPc>>
gitVars == <<gTask, gGlobal, gPc, gSettled, gCalls, gLog, gDone, gFailed,
             gCaught, gThrown>>
vars == <<runVars, resolveVars, gitVars>>

Entry(level, text) == [level |-> level, text |-> text]

\* A failed execution: the task, the step of executeTask that failed (the
\* handler file is missing, the module has no run, its evaluation throws, run
\* throws) and how executeTask settled ("false": it returned false;
\* "rejected": it threw).
Failure(id, cause, how) == [id |-> id, cause |-> cause, how |-> how]


(***************************************************************************)
(* selectTasksToRun (src/index.js:79-91).                                  *)
(***************************************************************************)
\* Array.prototype.includes: some element is strictly equal to v.
Includes(items, v) == \E k \in 1..Len(items) : items[k] = v

\* argv.tasks.split(',').map(t => t.trim()): the array of the trimmed ids.
\* Only a string has a method split: on the array of a repeated --tasks,
\* argv.tasks.split is undefined and the call raises a TypeError.
selectedTaskIds(arg) ==
  IF Get(arg, <<"s", "p", "l", "i", "t">>).t # "function"
  THEN Abrupt(TypeErrorObject)
  ELSE LET parts == Split(arg.s, ",")
       IN Arr([k \in 1..Len(parts) |-> Str(Trim(parts[k]))])

\* config.tasks.filter(task => task.enabled !== false)
enabledTasks(cfg) ==
  SelectSeq(Get(cfg, K_tasks).items, LAMBDA t : Get(t, K_enabled) # Bool(FALSE))

RECURSIVE TasksInIdOrder(_, _, _)
TasksInIdOrder(tasks, ids, i) ==
  IF i > Len(ids) THEN <<>>
  ELSE SelectSeq(tasks, LAMBDA t : Get(t, K_id) = ids[i])
       \o TasksInIdOrder(tasks, ids, i + 1)

\* selectTasksToRun looking each command-line id up in turn: the tasks come
\* in command-line order.
selectTasksToRun_cliOrder(cfg, args) ==
  IF Truthy(args.tasks)
  THEN LET ids == selectedTaskIds(args.tasks)
       IN IF ids.t = "throw" THEN ids
          ELSE Arr(TasksInIdOrder(enabledTasks(cfg), ids.items, 1))
  ELSE Arr(enabledTasks(cfg))

\* The array selectTasksToRun returns, or the error it throws: line 83 is
\* inside no try.
selectTasksToRun(cfg, args) ==
  IF Truthy(args.tasks)
  THEN LET ids == selectedTaskIds(args.tasks)
           Selected(task) == Includes(ids.items, Get(task, K_id))
       IN IF ids.t = "throw" THEN ids
          ELSE Arr(SelectSeq(enabledTasks(cfg), Selected))
  ELSE Arr(enabledTasks(cfg))


(***************************************************************************)
(* The run: main, runWizard and executeTask (src/index.js:98-198).  Each   *)
(* action runs main from one suspension point to the next.                 *)
(***************************************************************************)
TerminalPcs ==
  {"Exited", "Finished", "Halted", "Cancelled", "Crashed", "Stalled"}

task == tasksToRun[cur]
taskId == Get(task, K_id).s

SetPhase(p) == [phase EXCEPT ![cur] = p]

\* The module has been evaluated down to line 198: the document is loaded
\* and the command line parsed; main is about to be called, unless yargs has
\* ended the process at line 29 (--help, --version).
InitRun ==
  /\ config \in Configs
  /\ argv \in Argvs
  /\ IF Truthy(argv.help) \/ Truthy(argv.version)
     THEN pc = "Exited" /\ exit = <<0>>
     ELSE pc = "Idle" /\ exit = <<>>
  /\ tasksToRun = <<>>
  /\ cur = 0
  /\ phase = <<>>
  /\ resolvedTask = Undef
  /\ result = "none"
  /\ log = <<>>
  /\ prompted = <<>>
  /\ answers = <<>>
  /\ resolved = <<>>
  /\ executed = <<>>
  /\ invoked = <<>>
  /\ failures = <<>>

\* main, lines 160-171: select the tasks; nothing to run ends the run at once.
\* When selectTasksToRun throws, main rejects at line 162 and nothing catches
\* the rejection of main() (line 198): the process dies with status 1.
main_select ==
  /\ pc = "Idle"
  /\ LET returned == selectTasksToRun(config, argv)
         selected == returned.items
         log0 == Append(log, Entry("info", "Starting Task Runner for project"))
         log1 == Append(log0,
                        IF Truthy(argv.tasks)
                        THEN Entry("info", "Running selected tasks")
                        ELSE Entry("info", "Running all enabled tasks in order"))
     IN IF returned.t = "throw"
        THEN /\ log' = log0
             /\ pc' = "Crashed"
             /\ exit' = <<1>>
             /\ UNCHANGED <<tasksToRun, phase, cur>>
        ELSE /\ tasksToRun' = selected
             /\ phase' = [k \in 1..Len(selected) |-> "pending"]
             /\ IF Len(selected) = 0
                THEN /\ log' = Append(log1, Entry("warn", "No tasks to run. Exiting."))
                     /\ pc' = "Finished"
                     /\ exit' = <<0>>
                     /\ cur' = cur
                ELSE /\ log' = IF Truthy(argv.yes)
                               THEN Append(log1, Entry("info", "'-y' flag detected. Running in non-interactive mode."))
                               ELSE log1
                     /\ pc' = "Loop"
                     /\ exit' = exit
                     /\ cur' = 1
  /\ UNCHANGED <<config, argv, resolvedTask, result, prompted, answers,
                 resolved, executed, invoked, failures, resolveVars, gitVars>>

\* argv.yes || await runWizard(task), line 174: the wizard is called only
\* when argv.yes is falsy.
callsWizard == ~Truthy(argv.yes)

\* main, line 194: the loop is over; main returns and the process ends.
loopFinished ==
  /\ log' = Append(log, Entry("info", "Task runner finished."))
  /\ pc' = "Finished"
  /\ exit' = <<0>>
  /\ UNCHANGED <<phase, prompted>>

\* main, line 174 with --yes: shouldRun is argv.yes.
loopBypass ==
  /\ pc' = "Resolving"
  /\ phase' = SetPhase("resolving")
  /\ UNCHANGED <<log, exit, prompted>>

\* main, line 174, and runWizard, lines 99-109: the prompt is shown.
loopPrompt ==
  /\ pc' = "Confirming"
  /\ phase' = SetPhase("confirming")
  /\ prompted' = Append(prompted, taskId)
  /\ UNCHANGED <<log, exit>>

\* main, lines 173-174 and 194: the next task of the loop, or the end of the
\* run.
main_loop ==
  /\ pc = "Loop"
  /\ IF cur > Len(tasksToRun) THEN loopFinished
     ELSE IF callsWizard THEN loopPrompt
     ELSE loopBypass
  /\ UNCHANGED <<config, argv, tasksToRun, cur, resolvedTask, result, answers,
                 resolved, executed, invoked, failures, resolveVars, gitVars>>

\* wizardCancelled without the check of lines 111-114: undefined is returned,
\* which main takes for a no.
wizardCancelled_skips ==
  /\ log' = Append(log, Entry("warn", "Skipping task as requested by user."))
  /\ phase' = SetPhase("skipped")
  /\ cur' = cur + 1
  /\ pc' = "Loop"
  /\ exit' = exit

\* runWizard, lines 111-114: the prompt was aborted.
wizardCancelled ==
  /\ log' = Append(log, Entry("warn", "Wizard cancelled by user. Exiting."))
  /\ exit' = <<0>>
  /\ pc' = "Cancelled"
  /\ UNCHANGED <<phase, cur>>

\* runWizard, line 116, and main, line 176: the answer is yes.
wizardConfirmed ==
  /\ pc' = "Resolving"
  /\ phase' = SetPhase("resolving")
  /\ UNCHANGED <<log, exit, cur>>

\* wizardDeclined with the answer ignored: the task runs all the same.
wizardDeclined_runs ==
  /\ pc' = "Resolving"
  /\ phase' = SetPhase("resolving")
  /\ UNCHANGED <<log, exit, cur>>

\* runWizard, line 116: the answer is no.  runWizard returns false; main,
\* which awaits it, resumes in a later job.
wizardDeclined ==
  /\ pc' = "Declined"
  /\ UNCHANGED <<log, exit, phase, cur>>

\* runWizard, lines 104-116: the prompt answers true or false, or undefined
\* when aborted; runWizard reads the answer and exits or returns.
runWizard_response(value) ==
  /\ pc = "Confirming"
  /\ answers' = Append(answers, value)
  /\ IF value = Undef THEN wizardCancelled
     ELSE IF Truthy(value) THEN wizardConfirmed
     ELSE wizardDeclined
  /\ UNCHANGED <<config, argv, tasksToRun, resolvedTask, result, prompted,
                 resolved, executed, invoked, failures, resolveVars, gitVars>>

\* main, lines 174 and 189-191: main resumes with the false runWizard
\* returned, logs that the task is skipped and goes on to the next task.
main_skipTask ==
  /\ pc = "Declined"
  /\ log' = Append(log, Entry("warn", "Skipping task as requested by user."))
  /\ phase' = SetPhase("skipped")
  /\ cur' = cur + 1
  /\ pc' = "Loop"
  /\ UNCHANGED <<config, argv, tasksToRun, resolvedTask, result, exit,
                 prompted, answers, resolved, executed, invoked, failures,
                 resolveVars, gitVars>>

\* main_resolve without the await of executeTask: main takes the pending
\* promise for a success and goes on to the next task.
main_resolve_noAwait ==
  /\ pc = "Resolving"
  /\ resolveParams(Get(task, K_params), config).t # "throw"
  /\ resolvedTask' =
       SpreadWith(task, K_params, resolveParams(Get(task, K_params), config))
  /\ resolved' = Append(resolved, taskId)
  /\ executed' = Append(executed, taskId)
  /\ phase' = SetPhase("executing")
  /\ cur' = cur + 1
  /\ pc' = "Loop"
  /\ UNCHANGED <<config, argv, tasksToRun, result, exit, log, prompted,
                 answers, invoked, failures, resolveVars, gitVars>>

\* The document with its task `old` replaced by `new`.
WithTask(cfg, old, new) ==
  Obj([e \in 1..Len(cfg.entries) |->
         IF cfg.entries[e].k = K_tasks
         THEN Prop(K_tasks,
                   Arr([k \in 1..Len(cfg.entries[e].v.items) |->
                          IF cfg.entries[e].v.items[k] = old THEN new
                          ELSE cfg.entries[e].v.items[k]]))
         ELSE cfg.entries[e]])

\* main_resolve assigning task.params = resolveParams(task.params, config)
\* instead of building a new object: the task definition, which the
\* configuration document shares, is modified.
main_resolve_inPlace ==
  /\ pc = "Resolving"
  /\ resolveParams(Get(task, K_params), config).t # "throw"
  /\ LET new == SpreadWith(task, K_params,
                           resolveParams(Get(task, K_params), config))
     IN /\ resolvedTask' = new
        /\ tasksToRun' = [tasksToRun EXCEPT ![cur] = new]
        /\ config' = WithTask(config, task, new)
  /\ resolved' = Append(resolved, taskId)
  /\ executed' = Append(executed, taskId)
  /\ phase' = SetPhase("executing")
  /\ pc' = "Access"
  /\ UNCHANGED <<argv, cur, result, exit, log, prompted, answers, invoked,
                 failures, resolveVars, gitVars>>

\* main, lines 178 and 198: resolveParams threw.  main does not catch it and
\* nothing catches main's rejection: the process dies of the unhandled
\* rejection, with status 1, before executeTask is called.
resolveThrew ==
  /\ exit' = <<1>>
  /\ pc' = "Crashed"
  /\ UNCHANGED <<phase, failures, resolvedTask, resolved, executed>>

\* main, lines 178-181, and executeTask, lines 125-130: the resolved params
\* go into a fresh task object and executeTask is called, which waits for
\* fs.access; main waits for executeTask.
resolveReturned(resolvedParams) ==
  /\ resolvedTask' = SpreadWith(task, K_params, resolvedParams)
  /\ resolved' = Append(resolved, taskId)
  /\ executed' = Append(executed, taskId)
  /\ phase' = SetPhase("executing")
  /\ pc' = "Access"
  /\ UNCHANGED <<exit, failures>>

\* main, lines 176-181: the params of the task are resolved.
main_resolve ==
  /\ pc = "Resolving"
  /\ LET resolvedParams == resolveParams(Get(task, K_params), config)
     IN IF resolvedParams.t = "throw" THEN resolveThrew
        ELSE resolveReturned(resolvedParams)
  /\ UNCHANGED <<config, argv, tasksToRun, cur, result, log, prompted,
                 answers, invoked, resolveVars, gitVars>>

\* executeTask, lines 129-131: the handler file is there.
accessOk ==
  /\ pc' = "Import"
  /\ UNCHANGED <<log, result, failures>>

\* accessMissing without the try/catch around fs.access: executeTask rejects.
accessMissing_uncaught ==
  /\ log' = log
  /\ result' = "rejected"
  /\ failures' = Append(failures, Failure(taskId, "missing", "rejected"))
  /\ pc' = "Returned"

\* executeTask, lines 132-135: the handler file is missing.
accessMissing ==
  /\ log' = Append(log, Entry("error", "Task directory or index.js not found"))
  /\ result' = "false"
  /\ failures' = Append(failures, Failure(taskId, "missing", "false"))
  /\ pc' = "Returned"

\* executeTask, lines 129-135: the handler file exists or not.
executeTask_access(exists) ==
  /\ pc = "Access"
  /\ IF exists THEN accessOk ELSE accessMissing
  /\ UNCHANGED <<config, argv, tasksToRun, cur, phase, resolvedTask, exit,
                 prompted, answers, resolved, executed, invoked, resolveVars, gitVars>>

\* A value with properties to read: error.stack raises a TypeError on null
\* and undefined.
HasProperties(v) == v.t \notin {"null", "undefined"}

\* executeTask's catch block, lines 149-153, for the thrown value `error`:
\* it logs and returns false, unless reading error.stack itself throws.
CatchResult(error) == IF HasProperties(error) THEN "false" ELSE "rejected"

CatchLog(error) ==
  IF HasProperties(error)
  THEN <<Entry("error", "Task failed with an error:"), Entry("error", "error.stack || error.message")>>
  ELSE <<Entry("error", "Task failed with an error:")>>

\* executeTask, lines 139 and 145, and line 198: the awaited promise (the
\* import of the module, the handler's run) never settles.  main stays
\* suspended at the await; with nothing else for the event loop to do, the
\* runtime ends the process with status 0.
neverSettles ==
  /\ exit' = <<0>>
  /\ pc' = "Stalled"
  /\ UNCHANGED <<log, result, failures, invoked>>

\* executeTask, lines 144-145: the module exports run, which is invoked.
moduleRuns ==
  /\ log' = Append(log, Entry("info", "Starting task execution..."))
  /\ invoked' = Append(invoked, taskId)
  /\ pc' = "Running"
  /\ UNCHANGED <<result, failures, exit>>

\* executeTask, lines 139-142 and 149-153: the module has no function run
\* (an Error is thrown), or its evaluation throws `error`.
moduleFails(cause, error) ==
  /\ log' = log \o CatchLog(error)
  /\ result' = CatchResult(error)
  /\ failures' = Append(failures, Failure(taskId, cause, CatchResult(error)))
  /\ pc' = "Returned"
  /\ UNCHANGED <<invoked, exit>>

\* executeTask, lines 137-145: the module is loaded, or its evaluation never
\* ends (a top-level await that never settles).
executeTask_import(module, thrown) ==
  /\ pc = "Import"
  /\ IF module = "run" THEN moduleRuns
     ELSE IF module = "norun" THEN moduleFails("norun", ErrorObject)
     ELSE IF module = "throws" THEN moduleFails("throws", thrown)
     ELSE neverSettles
  /\ UNCHANGED <<config, argv, tasksToRun, cur, phase, resolvedTask,
                 prompted, answers, resolved, executed, resolveVars, gitVars>>

\* executeTask, lines 145-147: run returned.
runReturned ==
  /\ log' = Append(log, Entry("success", "Task completed successfully."))
  /\ result' = "true"
  /\ pc' = "Returned"
  /\ UNCHANGED <<failures, invoked, exit>>

\* executeTask, lines 149-153: run threw, or rejected with, `thrown`.
runThrew(thrown) ==
  /\ log' = log \o CatchLog(thrown)
  /\ result' = CatchResult(thrown)
  /\ failures' = Append(failures, Failure(taskId, "run", CatchResult(thrown)))
  /\ pc' = "Returned"
  /\ UNCHANGED <<invoked, exit>>

\* executeTask, lines 145-153: run returns, throws (rejects with) a value, or
\* returns a promise that never settles.
executeTask_settle(outcome, thrown) ==
  /\ pc = "Running"
  /\ IF outcome = "returns" THEN runReturned
     ELSE IF outcome = "throws" THEN runThrew(thrown)
     ELSE neverSettles
  /\ UNCHANGED <<config, argv, tasksToRun, cur, phase, resolvedTask,
                 prompted, answers, resolved, executed, resolveVars, gitVars>>

\* main, lines 181-184: executeTask returned true; on to the next task.
taskSucceeded ==
  /\ phase' = SetPhase("done")
  /\ cur' = cur + 1
  /\ pc' = "Loop"
  /\ result' = "none"
  /\ UNCHANGED <<log, exit>>

\* taskFailed without the process.exit(1): the failure is logged and the loop
\* goes on.
taskFailed_continues ==
  /\ log' = Append(log, Entry("error", "Stopping runner due to a failed task."))
  /\ phase' = SetPhase("failed")
  /\ cur' = cur + 1
  /\ pc' = "Loop"
  /\ result' = "none"
  /\ exit' = exit

\* main, lines 184-187: executeTask returned false; the run halts.
taskFailed ==
  /\ log' = Append(log, Entry("error", "Stopping runner due to a failed task."))
  /\ exit' = <<1>>
  /\ pc' = "Halted"
  /\ phase' = SetPhase("failed")
  /\ UNCHANGED <<cur, result>>

\* main, lines 181 and 198: executeTask rejected.  main does not catch it and
\* nothing catches main's rejection: the process dies of the unhandled
\* rejection, with status 1.
taskRejected ==
  /\ exit' = <<1>>
  /\ pc' = "Crashed"
  /\ phase' = SetPhase("failed")
  /\ UNCHANGED <<cur, result, log>>

\* main, lines 181-187: executeTask has settled.
main_afterExecute ==
  /\ pc = "Returned"
  /\ IF result = "true" THEN taskSucceeded
     ELSE IF result = "false" THEN taskFailed
     ELSE taskRejected
  /\ UNCHANGED <<config, argv, tasksToRun, resolvedTask, prompted, answers,
                 resolved, executed, invoked, failures, resolveVars, gitVars>>

ResolveIdle ==
  /\ rPieces = <<>>
  /\ rShape = "string"
  /\ rData = Undef
  /\ rConfig = Undef
  /\ rOut = Undef
  /\ rPc = "off"

GitIdle ==
  /\ gTask = Undef
  /\ gGlobal = Undef
  /\ gPc = "off"
  /\ gSettled = <<>>
  /\ gCalls = <<>>
  /\ gLog = <<>>
  /\ gDone = <<>>
  /\ gFailed = <<>>
  /\ gCaught = <<>>
  /\ gThrown = <<>>

Init == InitRun /\ ResolveIdle /\ GitIdle

Next ==
  \/ main_select
  \/ main_loop
  \/ \E value \in {Bool(TRUE), Bool(FALSE), Undef} : runWizard_response(value)
  \/ main_skipTask
  \/ main_resolve
  \/ \E exists \in BOOLEAN : executeTask_access(exists)
  \/ \E module \in {"run", "norun", "throws", "pending"},
        thrown \in ThrownValues :
       executeTask_import(module, thrown)
  \/ \E outcome \in {"returns", "throws", "pending"}, thrown \in ThrownValues :
       executeTask_settle(outcome, thrown)
  \/ main_afterExecute

Spec == Init /\ [][Next]_vars

\* The run goes on while it can: main is the only thing the event loop has to
\* run, every prompt is eventually answered or aborted, and every awaited
\* access, import and handler eventually settles, or the runtime ends the
\* process that waits for what never settles.
\* A step of main.  Every step of main moves it (pc changes); the step from
\* Resolving is main_resolve, which is always possible there: resolveParams
\* returns or throws for every input.
Advance ==
  \/ pc # "Resolving" /\ Next
  \/ pc = "Resolving" /\ pc' \in {"Access", "Crashed"}

FairSpec == Spec /\ WF_pc(Advance)


(***************************************************************************)
(* resolveParams on its own: its inputs are drawn from bounded sets and    *)
(* one action applies it.                                                  *)
(***************************************************************************)
Lit(text) == [kind |-> "lit", text |-> text]
Ph(path) == [kind |-> "ph", text |-> path]
Junk(text) == [kind |-> "junk", text |-> text]

\* The text of a piece: literal text, a placeholder ${path}, or stray
\* delimiters.
PieceText(piece) ==
  IF piece.kind = "ph" THEN <<"$", "{">> \o piece.text \o <<"}">> ELSE piece.text

RECURSIVE Render(_, _)
Render(pieces, i) ==
  IF i > Len(pieces) THEN <<>>
  ELSE PieceText(pieces[i]) \o Render(pieces, i + 1)

\* Literal text; placeholders whose path is found, is not found, is padded
\* with white space, leads to an object, a number, null, a placeholder, an
\* empty string, a character of a string, an array, a value that cannot be
\* converted, an inherited member, a restricted property of a built-in
\* function; a placeholder broken by a line separator; stray delimiters.
PiecePool ==
  { Lit(<<"p">>),
    Ph(<<"x", ".", "y">>),
    Ph(<<"m", "i", "s", "s", "i", "n", "g", ".", "p", "a", "t", "h">>),
    Ph(<<"\f", "x", ".", "y", "U+00A0">>),
    Ph(<<"x">>),
    Ph(<<"x", ".", "n">>),
    Ph(<<"z">>),
    Ph(<<"a">>),
    Ph(<<"e">>),
    Ph(<<"x", ".", "y", ".", "0">>),
    Ph(<<"l">>),
    Ph(<<"u">>),
    Ph(<<"c", "o", "n", "s", "t", "r", "u", "c", "t", "o", "r">>),
    Ph(<<"x", ".", "n", ".", "t", "o", "F", "i", "x", "e", "d", ".", "c", "a",
         "l", "l", "e", "r">>),
    Ph(<<"x", "U+2028", "y">>),
    Junk(<<"$">>), Junk(<<"{">>), Junk(<<"}">>), Junk(<<"$", "{">>) }

PieceSeqs == UNION {[1..n -> PiecePool] : n \in 0..MaxPieces}

\* { x: { y: "Z" } }
SmallRoot == Obj(<<Prop(<<"x">>, Obj(<<Prop(<<"y">>, Str(<<"Z">>))>>))>>)

\* { x: { y: "Z", n: 42 }, z: null, a: "${b}", b: "${a}", e: "",
\*   l: [1, null, "Z"], u: { toString: 1 } }
LargeRoot ==
  Obj(<<Prop(<<"x">>, Obj(<<Prop(<<"y">>, Str(<<"Z">>)), Prop(<<"n">>, Num(42))>>)),
        Prop(<<"z">>, Null),
        Prop(<<"a">>, Str(<<"$", "{", "b", "}">>)),
        Prop(<<"b">>, Str(<<"$", "{", "a", "}">>)),
        Prop(<<"e">>, Str(<<>>)),
        Prop(<<"l">>, Arr(<<Num(1), Null, Str(<<"Z">>)>>)),
        Prop(<<"u">>, Unprintable)>>)


Shapes == {"string", "object", "array", "proto"}

\* The value of a shape around two strings: the string itself,
\* { a: first, b: [1, rest] }, [first, { k: rest }, null, true, 7], or the
\* document { "__proto__": first, "c": { "__proto__": { "a": rest } } }.
Shaped(shape, first, rest) ==
  CASE shape = "string" -> Str(first \o rest)
    [] shape = "object" ->
         Obj(<<Prop(<<"a">>, Str(first)),
               Prop(<<"b">>, Arr(<<Num(1), Str(rest)>>))>>)
    [] shape = "array" ->
         Arr(<<Str(first), Obj(<<Prop(<<"k">>, Str(rest))>>), Null,
               Bool(TRUE), Num(7)>>)
    [] shape = "proto" ->
         Obj(<<Prop(ProtoKey, Str(first)),
               Prop(<<"c">>,
                    Obj(<<Prop(ProtoKey,
                               Obj(<<Prop(<<"a">>, Str(rest))>>))>>))>>)

FirstPiece(pieces) == IF pieces = <<>> THEN <<>> ELSE <<Head(pieces)>>
RestPieces(pieces) == IF pieces = <<>> THEN <<>> ELSE Tail(pieces)

InputOf(shape, pieces) ==
  Shaped(shape, Render(FirstPiece(pieces), 1), Render(RestPieces(pieces), 1))

RunIdle ==
  /\ config = Undef
  /\ argv = [tasks |-> Undef, yes |-> Undef]
  /\ pc = "Off"
  /\ tasksToRun = <<>>
  /\ cur = 0
  /\ phase = <<>>
  /\ resolvedTask = Undef
  /\ result = "none"
  /\ exit = <<>>
  /\ log = <<>>
  /\ prompted = <<>>
  /\ answers = <<>>
  /\ resolved = <<>>
  /\ executed = <<>>
  /\ invoked = <<>>
  /\ failures = <<>>

InitResolve ==
  /\ RunIdle
  /\ GitIdle
  /\ rPieces \in PieceSeqs
  /\ rShape \in Shapes
  /\ rData = InputOf(rShape, rPieces)
  /\ rConfig \in {SmallRoot, LargeRoot}
  /\ rOut = Undef
  /\ rPc = "ready"

\* A call resolveParams(rData, rConfig): it returns a value or throws.
resolve_call ==
  /\ rPc = "ready"
  /\ rOut' = resolveParams(rData, rConfig)
  /\ rPc' = IF resolveParams(rData, rConfig).t = "throw" THEN "threw"
            ELSE "done"
  /\ UNCHANGED <<rPieces, rShape, rData, rConfig, runVars, gitVars>>

NextResolve == resolve_call

SpecResolve == InitResolve /\ [][NextResolve]_vars

(***************************************************************************)
(* handleGitAction (src/git-handler.js).                                   *)
(***************************************************************************)
K_add == <<"a", "d", "d">>
K_push == <<"p", "u", "s", "h">>
K_stdout == <<"s", "t", "d", "o", "u", "t">>
K_stderr == <<"s", "t", "d", "e", "r", "r">>
K_basePath == <<"b", "a", "s", "e", "P", "a", "t", "h">>

\* One call to the logger: level, fixed text, interpolated text.
GitEntry(level, text, arg) == [level |-> level, text |-> text, arg |-> arg]


NotAvailable == <<"N", "/", "A">>
GitAddPrefix == <<"g", "i", "t", " ", "a", "d", "d", " ">>
GitCommitPrefix ==
  <<"g", "i", "t", " ", "c", "o", "m", "m", "i", "t", " ", "-", "m", " ",
    "\"">>

\* The errors handleGitAction and gitCommit construct.
GitOperationFailed ==
  Obj(<<Prop(K_name, Str(<<"E", "r", "r", "o", "r">>)),
        Prop(K_message,
             Str(<<"G", "i", "t", " ", "o", "p", "e", "r", "a", "t", "i", "o", "n", " ", "f", "a", "i", "l", "e", "d", ".", " ", "S", "e", "e", " ", "l", "o", "g", "s", " ", "f", "o", "r", " ", "d", "e", "t", "a", "i", "l", "s", ".">>))>>)
NoDescriptionError ==
  Obj(<<Prop(K_name, Str(<<"E", "r", "r", "o", "r">>)),
        Prop(K_message,
             Str(<<"C", "a", "n", "n", "o", "t", " ", "u", "s", "e", " ", "'", "c", "o", "m", "m", "i", "t", ":", " ", "t", "r", "u", "e", "'", " ", "w", "h", "e", "n", " ", "t", "h", "e", " ", "t", "a", "s", "k", " ", "h", "a", "s", " ", "n", "o", " ", "d", "e", "s", "c", "r", "i", "p", "t", "i", "o", "n", ".">>))>>)

\* What exec resolves with, and the errors it rejects with (a non-zero exit
\* carries the captured streams; so does a shell that cannot find git).
ExecOutput(stdout, stderr) ==
  Obj(<<Prop(K_stdout, Str(stdout)), Prop(K_stderr, Str(stderr))>>)
ExecOutputs ==
  {ExecOutput(<<>>, <<>>), ExecOutput(<<"o">>, <<>>), ExecOutput(<<>>, <<"e">>)}
ExecErrors ==
  {ExecOutput(<<>>, <<"f">>), ExecOutput(<<"o">>, <<>>)}

\* The inputs: GitConfigs with and without each key (add: a file, a list of
\* files, an empty string, a value and a list with a value that cannot be
\* converted to a string; commit: true, false, a message, a message with
\* quotes, a number; push: true, false), in every key order; and, for git, an
\* empty array and the absence of a value besides.
GitProps ==
  {Prop(K_add, v) :
     v \in {Str(<<".">>), Arr(<<Str(<<"a">>), Str(<<"b">>)>>), Str(<<>>),
            Unprintable, Arr(<<Str(<<"a">>), Unprintable>>)}}
    \cup {Prop(K_commit, v) :
            v \in {Bool(TRUE), Bool(FALSE), Str(<<"m">>),
                   Str(<<"\"", "q", "\"">>), Num(1)}}
    \cup {Prop(K_push, v) : v \in {Bool(TRUE), Bool(FALSE)}}
GitConfigs ==
  {Obj(entries) : entries \in
     {e \in UNION {[1..n -> GitProps] : n \in 0..3} :
        \A i, j \in 1..Len(e) : i # j => e[i].k # e[j].k}}
GitTask(git, description) ==
  Obj(<<Prop(K_id, Str(<<"a">>))>>
      \o (IF description = Undef THEN <<>>
          ELSE <<Prop(K_description, description)>>)
      \o (IF git = Undef THEN <<>> ELSE <<Prop(K_git, git)>>))
GitTasks ==
  {GitTask(git, description) :
     git \in GitConfigs \cup {Undef, Null, Arr(<<>>)},
     description \in {Undef, Str(<<"D">>), Str(<<>>)}}
GlobalConfigs ==
  {Obj(<<Prop(K_project, Obj(<<Prop(K_basePath, Str(<<".">>))>>))>>),
   Obj(<<Prop(K_project, Obj(<<>>))>>)}


RECURSIVE Sanitize(_)
\* commitMessage.replace(/"/g, '\\"').
Sanitize(s) ==
  IF s = <<>> THEN <<>>
  ELSE (IF s[1] = "\"" THEN <<"\\", "\"">> ELSE <<s[1]>>) \o Sanitize(Tail(s))

\* What a step does before it awaits exec: it throws, or it has a command
\* line to execute.
Throws(error) == [threw |-> TRUE, error |-> error, command |-> <<>>]
Executes(command) == [threw |-> FALSE, error |-> Undef, command |-> command]

\* gitAdd, lines 14-17: the conversion of the files to the text of the
\* command line may throw.
gitAdd(files) ==
  LET filesToAdd == IF files.t = "array" THEN JoinWith(files.items, <<" ">>, 1)
                    ELSE files
  IN IF JSToString(filesToAdd).t = "throw"
     THEN Throws(JSToString(filesToAdd).error)
     ELSE Executes(GitAddPrefix \o JSToString(filesToAdd).s)

\* gitCommit falling back to an empty message instead of refusing a task
\* without description.
gitCommit_emptyMessage(commitMessageOrBool, parent) ==
  LET commitMessage ==
        IF commitMessageOrBool = Bool(TRUE)
        THEN (IF Truthy(Get(parent, K_description))
              THEN Get(parent, K_description) ELSE Str(<<>>))
        ELSE commitMessageOrBool
  IN IF commitMessage.t # "string" THEN Throws(TypeErrorObject)
     ELSE Executes(GitCommitPrefix \o Sanitize(commitMessage.s) \o <<"\"">>)

\* gitCommit, lines 28-40: a commit message that is no string has no method
\* replace, and calling it is a TypeError.
gitCommit(commitMessageOrBool, parent) ==
  IF commitMessageOrBool = Bool(TRUE) /\ ~Truthy(Get(parent, K_description))
  THEN Throws(NoDescriptionError)
  ELSE LET commitMessage ==
             IF commitMessageOrBool = Bool(TRUE)
             THEN Get(parent, K_description) ELSE commitMessageOrBool
       IN IF commitMessage.t # "string" THEN Throws(TypeErrorObject)
          ELSE Executes(GitCommitPrefix \o Sanitize(commitMessage.s)
                        \o <<"\"">>)

\* gitPush, lines 50-52.
gitPush == Executes(<<"g", "i", "t", " ", "p", "u", "s", "h">>)

\* What a step logs once its subprocess has succeeded: gitAdd nothing,
\* gitCommit (line 41) the output, gitPush (lines 53-54) both streams.
AfterExec(step, out) ==
  LET stdout == Get(out, K_stdout)
      stderr == Get(out, K_stderr)
  IN CASE step = "add" -> <<>>
       [] step = "commit" ->
            IF Truthy(stdout)
            THEN <<GitEntry("info", "Commit successful:\n", JSToString(stdout).s)>>
            ELSE <<>>
       [] step = "push" ->
            (IF Truthy(stdout)
             THEN <<GitEntry("info", "", JSToString(stdout).s)>>
             ELSE <<>>)
            \o (IF Truthy(stderr)
                THEN <<GitEntry("info", "", JSToString(stderr).s)>>
                ELSE <<>>)

Steps == <<"add", "commit", "push">>
StepKey(step) ==
  CASE step = "add" -> K_add
    [] step = "commit" -> K_commit
    [] step = "push" -> K_push

\* The steps in the order of the keys of the GitConfig.
StepOrder_keyOrder(gitConfig) ==
  LET keys == IF gitConfig.t = "object"
              THEN [k \in 1..Len(gitConfig.entries) |-> gitConfig.entries[k].k]
              ELSE <<K_push>>
      known == SelectSeq(keys, LAMBDA key : \E n \in 1..3 : StepKey(Steps[n]) = key)
  IN [k \in 1..Len(known) |->
        Steps[CHOOSE n \in 1..3 : StepKey(Steps[n]) = known[k]]]

\* handleGitAction, lines 75-83: the three tests follow one another.
StepOrder(gitConfig) == Steps

\* A step that is absent runs as if it were `true`.
StepValue_defaulted(gitConfig, step) ==
  IF Get(gitConfig, StepKey(step)) = Undef THEN Bool(TRUE)
  ELSE Get(gitConfig, StepKey(step))

\* handleGitAction, line 68: const { add, commit, push } = gitConfig, each a
\* property read of a truthy value: an own property or an inherited one (the
\* method push of an array).
StepValue(gitConfig, step) == Get(gitConfig, StepKey(step))

StartStep(step, value, parent) ==
  CASE step = "add" -> gitAdd(value)
    [] step = "commit" -> gitCommit(value, parent)
    [] step = "push" -> gitPush

\* The state of one call of handleGitAction.
GitState ==
  [pc |-> gPc, settled |-> gSettled, calls |-> gCalls, log |-> gLog,
   caught |-> gCaught, thrown |-> gThrown]

\* The promise of a step has settled, fulfilled or rejected with `error`:
\* handleGitAction, suspended at the await of that step (lines 76, 79, 82),
\* resumes in a later job.
Settles(st, step, ok, error) ==
  [st EXCEPT !.pc = "settled",
             !.settled = <<[step |-> step, ok |-> ok, error |-> error]>>]

\* The catch block logging the failure and then returning normally.
Catch_swallows(st, error) ==
  [st EXCEPT
     !.pc = "returned",
     !.caught = Append(@, error),
     !.log = @ \o <<GitEntry("error", "A Git command failed:", <<>>),
                    GitEntry("success", "Git actions completed successfully.", <<>>)>>]

\* handleGitAction, lines 85-90: the catch block.
Catch(st, error) ==
  LET stdout == Get(error, K_stdout)
      stderr == Get(error, K_stderr)
  IN [st EXCEPT
        !.pc = "threw",
        !.caught = Append(@, error),
        !.log = @ \o
          <<GitEntry("error", "A Git command failed:", <<>>),
            GitEntry("error", "STDOUT: ",
                     IF Truthy(stdout) THEN JSToString(stdout).s
                     ELSE NotAvailable),
            GitEntry("error", "STDERR: ",
                     IF Truthy(stderr) THEN JSToString(stderr).s
                     ELSE NotAvailable)>>,
        !.thrown = Append(@, GitOperationFailed)]

RECURSIVE RunSteps(_, _, _, _)
\* handleGitAction, lines 74-92, from the i-th step on, up to its next await:
\* steps whose value is falsy are passed over; a step that starts its
\* subprocess is awaited; a step that throws before it has a subprocess has
\* returned a rejected promise, which is awaited too; after the last step the
\* success is logged.
RunSteps(order, i, parent, st) ==
  IF i > Len(order)
  THEN [st EXCEPT !.pc = "returned",
                  !.log = Append(@, GitEntry("success", "Git actions completed successfully.", <<>>))]
  ELSE LET value == StepValue(Get(parent, K_git), order[i])
       IN IF ~Truthy(value) THEN RunSteps(order, i + 1, parent, st)
          ELSE LET start == StartStep(order[i], value, parent)
               IN IF start.threw
                  THEN Settles(st, order[i], FALSE, start.error)
                  ELSE [st EXCEPT
                          !.pc = order[i],
                          !.log = Append(@, GitEntry("info", "Executing: ",
                                                     start.command)),
                          !.calls = Append(@, [step |-> order[i],
                                               command |-> start.command])]

Becomes(st) ==
  /\ gPc' = st.pc
  /\ gSettled' = st.settled
  /\ gCalls' = st.calls
  /\ gLog' = st.log
  /\ gCaught' = st.caught
  /\ gThrown' = st.thrown

StepIndex(order, step) == CHOOSE i \in 1..Len(order) : order[i] = step

\* handleGitAction is called, lines 63-72, and runs up to its first await.
handleGitAction_call ==
  /\ gPc = "ready"
  /\ LET gitConfig == Get(gTask, K_git)
         basePath == Get(Get(gGlobal, K_project), K_basePath)
     IN IF ~Truthy(gitConfig)
        THEN Becomes([GitState EXCEPT !.pc = "returned"])
        ELSE IF basePath.t # "string"
        THEN Becomes([GitState EXCEPT !.pc = "threw",
                                      !.thrown = Append(@, TypeErrorObject)])
        ELSE Becomes(RunSteps(StepOrder(gitConfig), 1, gTask,
                              [GitState EXCEPT
                                 !.log = Append(@, GitEntry("info",
                                                            "Starting post-task Git actions...",
                                                            <<>>))]))
  /\ UNCHANGED <<gTask, gGlobal, gDone, gFailed, runVars, resolveVars>>

\* The subprocess of the awaited step exits with status 0: the step function
\* resumes, logs what line 41 or lines 53-54 log and returns; its promise is
\* fulfilled.
exec_resolves(out) ==
  /\ gPc \in {"add", "commit", "push"}
  /\ gDone' = Append(gDone, gPc)
  /\ Becomes(Settles([GitState EXCEPT !.log = @ \o AfterExec(gPc, out)],
                     gPc, TRUE, Undef))
  /\ UNCHANGED <<gTask, gGlobal, gFailed, runVars, resolveVars>>

\* The subprocess of the awaited step fails: exec rejects, and so does the
\* promise of the step function.
exec_rejects(error) ==
  /\ gPc \in {"add", "commit", "push"}
  /\ gFailed' = Append(gFailed, [step |-> gPc, error |-> error])
  /\ Becomes(Settles(GitState, gPc, FALSE, error))
  /\ UNCHANGED <<gTask, gGlobal, gDone, runVars, resolveVars>>

\* handleGitAction resumes from its await, lines 76-92: after a fulfilled
\* step it goes on with the steps that follow, after a rejected one it runs
\* the catch block.
handleGitAction_resume ==
  /\ gPc = "settled"
  /\ LET order == StepOrder(Get(gTask, K_git))
         step == gSettled[1]
         st == [GitState EXCEPT !.settled = <<>>]
     IN IF step.ok
        THEN Becomes(RunSteps(order, StepIndex(order, step.step) + 1, gTask, st))
        ELSE Becomes(Catch(st, step.error))
  /\ UNCHANGED <<gTask, gGlobal, gDone, gFailed, runVars, resolveVars>>

InitGit ==
  /\ RunIdle
  /\ ResolveIdle
  /\ gTask \in GitTasks
  /\ gGlobal \in GlobalConfigs
  /\ gPc = "ready"
  /\ gSettled = <<>>
  /\ gCalls = <<>>
  /\ gLog = <<>>
  /\ gDone = <<>>
  /\ gFailed = <<>>
  /\ gCaught = <<>>
  /\ gThrown = <<>>

NextGit ==
  \/ handleGitAction_call
  \/ \E out \in ExecOutputs : exec_resolves(out)
  \/ \E error \in ExecErrors : exec_rejects(error)
  \/ handleGitAction_resume

SpecGit == InitGit /\ [][NextGit]_vars



(***************************************************************************)
(* Properties of the run.                                                  *)
(***************************************************************************)
NumSelected == Len(tasksToRun)
SelectedId(k) == Get(tasksToRun[k], K_id).s
Occurs(seq, x) == \E k \in 1..Len(seq) : seq[k] = x
PositionOf(id) == CHOOSE k \in 1..NumSelected : SelectedId(k) = id
LastOf(seq) == seq[Len(seq)]

\* selectTasksToRun has returned: main is past line 162.  (The process that
\* died before any task was reached died in selectTasksToRun.)
SelectionReturned ==
  /\ pc \notin {"Idle", "Exited"}
  /\ ~(pc = "Crashed" /\ cur = 0)

\* Nothing has happened to the k-th selected task: no prompt, no resolution,
\* no execution.
Untouched(k) ==
  /\ phase[k] = "pending"
  /\ ~Occurs(prompted, SelectedId(k))
  /\ ~Occurs(resolved, SelectedId(k))
  /\ ~Occurs(executed, SelectedId(k))
  /\ ~Occurs(invoked, SelectedId(k))

\* C1 (fail-fast): once executeTask has returned false for the task at
\* position i, main is at that task and does nothing but halt: it logs the
\* halting message and the process exits with status 1, and no task after
\* position i is ever prompted, resolved or executed.
C1_FailFast ==
  \A f \in 1..Len(failures) :
    failures[f].how = "false" =>
      LET i == PositionOf(failures[f].id)
      IN /\ Len(failures) = 1
         /\ cur = i
         /\ LastOf(executed) = SelectedId(i)
         /\ pc \in {"Returned", "Halted"}
         /\ (pc = "Returned" => result = "false" /\ exit = <<>>)
         /\ (pc = "Halted" =>
               /\ exit = <<1>>
               /\ LastOf(log) = Entry("error", "Stopping runner due to a failed task."))
         /\ \A k \in (i + 1)..NumSelected : Untouched(k)

\* Three tasks, the second fails: exactly tasks 1 and 2 were executed and the
\* process has exited with status 1.
C1_Witness ==
  /\ NumSelected = 3
  /\ pc = "Halted"
  /\ exit = <<1>>
  /\ executed = << <<"a">>, <<"b">> >>
  /\ failures = << Failure(<<"b">>, "run", "false") >>
  /\ phase[3] = "pending"

\* C2 (exit codes): the process has exited exactly in the terminal states;
\* its status is non-zero if and only if some task execution failed
\* (executeTask returned false or rejected); it is 0 when every selected task
\* completed or was declined, when nothing was selected (and then nothing
\* was prompted or executed), and when a prompt was aborted.
C2_ExitCodes ==
  /\ (pc \in TerminalPcs <=> exit # <<>>)
  /\ (exit # <<>> => (exit[1] # 0 <=> failures # <<>>))
  /\ (pc = "Finished" =>
        /\ exit = <<0>>
        /\ \A k \in 1..NumSelected : phase[k] \in {"done", "skipped"})
  /\ (SelectionReturned /\ NumSelected = 0 =>
        /\ pc = "Finished"
        /\ exit = <<0>>
        /\ prompted = <<>>
        /\ executed = <<>>)
  /\ (pc = "Cancelled" => exit = <<0>>)

ConfigTasks == Get(config, K_tasks).items
TaskIdOf(t) == Get(t, K_id).s
RangeOf(seq) == {seq[k] : k \in 1..Len(seq)}

\* The --tasks string names `id`: between two commas (or an end of the
\* string) there is `id` with only white space around it.
Names(s, id) ==
  \E lo \in 1..Len(s) :
    /\ (lo = 1 \/ s[lo - 1] = ",")
    /\ \E hi \in lo..Len(s) :
         /\ (hi = Len(s) \/ s[hi + 1] = ",")
         /\ \A k \in lo..hi : s[k] # ","
         /\ \E a \in lo..hi :
              /\ a + Len(id) - 1 \in a..hi
              /\ SubSeq(s, a, a + Len(id) - 1) = id
              /\ \A k \in lo..(a - 1) : IsWhiteSpace(s[k])
              /\ \A k \in (a + Len(id))..hi : IsWhiteSpace(s[k])

\* The command line names `id`: in the string of its --tasks, or in one of
\* the strings of a repeated --tasks.
CliNames(id) ==
  CASE argv.tasks.t = "string" -> Names(argv.tasks.s, id)
    [] argv.tasks.t = "array" ->
         \E k \in 1..Len(argv.tasks.items) : Names(argv.tasks.items[k].s, id)
    [] OTHER -> FALSE

\* seq restricted to the members of S, in seq's order.
Restrict(seq, S) == SelectSeq(seq, LAMBDA x : x \in S)

\* C3 (selection): for every configuration and every list of ids on the
\* command line, selectTasksToRun returns, and what it returns are tasks of
\* the configuration in configuration order, whatever the order of the ids
\* on the command line; none has enabled === false, named on the command
\* line or not; a task without `enabled` is selected whenever the command
\* line names it or gives no ids; with ids on the command line only tasks
\* it names are selected.
C3_Selection ==
  pc \notin {"Idle", "Exited"} =>
    /\ SelectionReturned
    /\ tasksToRun = Restrict(ConfigTasks, RangeOf(tasksToRun))
    /\ \A k \in 1..NumSelected : Get(tasksToRun[k], K_enabled) # Bool(FALSE)
    /\ \A k \in 1..Len(ConfigTasks) :
         LET t == ConfigTasks[k]
         IN /\ Get(t, K_enabled) = Undef
            /\ (~Truthy(argv.tasks) \/ CliNames(TaskIdOf(t)))
            => t \in RangeOf(tasksToRun)
    /\ (Truthy(argv.tasks) =>
          \A k \in 1..NumSelected : CliNames(SelectedId(k)))

\* C4 (the executor never raises): whatever value a handler's run throws or
\* rejects with, executeTask catches it and returns false; it never rejects,
\* so main sees true or false and the process never dies of an unhandled
\* rejection.
C4_ExecutorNeverRaises ==
  \A f \in 1..Len(failures) :
    failures[f].cause = "run" =>
      /\ failures[f].how = "false"
      /\ result = "false"
      /\ pc \in {"Returned", "Halted"}

\* C5 (cancellation): a prompt answered undefined is the last thing of the
\* run: the process has exited with status 0, the task prompted for is
\* neither resolved nor executed, and no later task is prompted, resolved or
\* executed.
C5_Cancellation ==
  \A n \in 1..Len(answers) :
    answers[n] = Undef =>
      LET i == PositionOf(prompted[n])
      IN /\ n = Len(answers)
         /\ n = Len(prompted)
         /\ pc = "Cancelled"
         /\ exit = <<0>>
         /\ cur = i
         /\ phase[i] = "confirming"
         /\ ~Occurs(resolved, SelectedId(i))
         /\ ~Occurs(executed, SelectedId(i))
         /\ ~Occurs(invoked, SelectedId(i))
         /\ \A k \in (i + 1)..NumSelected : Untouched(k)

\* The prompt of the second of three tasks was aborted after the first ran.
C5_Witness ==
  /\ NumSelected = 3
  /\ Len(answers) = 2
  /\ answers[2] = Undef
  /\ phase[1] = "done"
  /\ pc = "Cancelled"

\* C6 (decline): a task whose prompt was answered false is never resolved,
\* executed or invoked and is no failure.  Once runWizard has returned the
\* answer, main does nothing with the task but skip it (the process has not
\* exited and no other task has started); from then on the task is skipped
\* and the run has gone on to the next task, which does not start without
\* its own prompt, and a status other than 0 comes from a later task only:
\* the process ended while that task was resolved or executed.
C6_Decline ==
  \A n \in 1..Len(answers) :
    answers[n] = Bool(FALSE) =>
      LET i == PositionOf(prompted[n])
      IN /\ ~Occurs(resolved, SelectedId(i))
         /\ ~Occurs(executed, SelectedId(i))
         /\ ~Occurs(invoked, SelectedId(i))
         /\ \A f \in 1..Len(failures) : failures[f].id # SelectedId(i)
         /\ IF pc = "Declined" /\ n = Len(answers)
            THEN /\ cur = i
                 /\ phase[i] = "confirming"
                 /\ exit = <<>>
                 /\ \A k \in (i + 1)..NumSelected : Untouched(k)
            ELSE /\ phase[i] = "skipped"
                 /\ cur > i
                 /\ (exit = <<1>> =>
                       /\ cur \in (i + 1)..NumSelected
                       /\ phase[cur] \in {"resolving", "failed"})
                 /\ (cur = i + 1 =>
                       IF i = NumSelected THEN pc \in {"Loop", "Finished"}
                       ELSE \/ pc = "Loop" /\ phase[i + 1] = "pending"
                            \/ /\ Len(prompted) > n
                               /\ prompted[n + 1] = SelectedId(i + 1))

\* The first task was declined and the second is being confirmed.
C6_Witness ==
  /\ Len(answers) = 1
  /\ answers[1] = Bool(FALSE)
  /\ phase[1] = "skipped"
  /\ pc = "Confirming"
  /\ cur = 2
  /\ prompted = << <<"a">>, <<"b">> >>

\* C7 (bypass): with --yes no prompt is ever shown and no task is skipped or
\* cancelled: every selected task the loop has reached went straight to the
\* resolution of its params and from there to executeTask, and a run that
\* ended without a failed execution, and without waiting for a handler that
\* never settles, has executed every selected task.
C7_Bypass ==
  Truthy(argv.yes) =>
    /\ prompted = <<>>
    /\ answers = <<>>
    /\ pc \notin {"Confirming", "Cancelled"}
    /\ \A k \in 1..NumSelected :
         /\ phase[k] \in {"pending", "resolving", "executing", "done", "failed"}
         /\ (k < cur => phase[k] = "done")
         /\ (phase[k] = "resolving" => pc = "Resolving")
         /\ (phase[k] \in {"executing", "done", "failed"} =>
               /\ Len(executed) >= k
               /\ resolved[k] = SelectedId(k)
               /\ executed[k] = SelectedId(k))
    /\ (exit # <<>> /\ pc \notin {"Exited", "Stalled"} /\ failures = <<>> =>
          /\ pc = "Finished"
          /\ Len(executed) = NumSelected)

\* C8 (handler resolution): when the handler file is missing, or the module
\* exports no function run, executeTask returns false: it does not reject,
\* and run is not invoked for that task.
C8_HandlerResolution ==
  \A f \in 1..Len(failures) :
    failures[f].cause \in {"missing", "norun"} =>
      /\ failures[f].how = "false"
      /\ result = "false"
      /\ pc \in {"Returned", "Halted"}
      /\ ~Occurs(invoked, failures[f].id)
      /\ LastOf(executed) = failures[f].id

\* The second task's module has no run; the first task's file was found and
\* ran.
C8_Witness ==
  /\ Len(failures) = 1
  /\ failures[1].cause = "norun"
  /\ invoked = << <<"a">> >>
  /\ executed = << <<"a">>, <<"b">> >>
  /\ pc = "Halted"

ActivePhases == {"confirming", "resolving", "executing"}
CompletedPhases == {"done", "skipped"}

\* C9 (sequential): at most one task is being confirmed, resolved or
\* executed, and a task has left `pending` only if every task before it has
\* completed (was executed successfully or skipped); while a handler runs,
\* its task is the one executing.
C9_Sequential ==
  /\ Cardinality({k \in 1..NumSelected : phase[k] \in ActivePhases}) <= 1
  /\ \A k \in 2..NumSelected :
       phase[k] # "pending" => \A j \in 1..(k - 1) : phase[j] \in CompletedPhases
  /\ (pc \in {"Access", "Import", "Running", "Returned"} =>
        phase[cur] = "executing")
  /\ (pc = "Running" => LastOf(invoked) = SelectedId(cur))

\* The third task's handler is running after the first ran and the second
\* was skipped.
C9_Witness ==
  /\ NumSelected = 3
  /\ pc = "Running"
  /\ cur = 3
  /\ phase = <<"done", "skipped", "executing">>


(***************************************************************************)
(* Properties of resolveParams.                                            *)
(***************************************************************************)
PlainText(text) == \A k \in 1..Len(text) : text[k] \notin {"$", "{", "}"}

\* Literal text without delimiters, or a placeholder around a non-empty path
\* without delimiters and line breaks.
WellFormed(piece) ==
  \/ piece.kind = "lit" /\ PlainText(piece.text)
  \/ /\ piece.kind = "ph"
     /\ piece.text # <<>>
     /\ PlainText(piece.text)
     /\ \A k \in 1..Len(piece.text) : ~IsLineTerminator(piece.text[k])

RECURSIVE Walk(_, _, _)
\* The value the keys lead to in the configuration tree, from the i-th key
\* on: each key is looked up among the keys the value has (the keys of a
\* mapping, the indices and the length of a sequence or a string); a key
\* that is absent, or looked up in a value without keys, leads to nothing.
Walk(o, keys, i) ==
  IF i > Len(keys) THEN o
  ELSE IF o.t \notin {"object", "array", "string"} \/ ~Truthy(o) THEN Undef
  ELSE Walk(OwnProperty(o, keys[i]), keys, i + 1)

\* The value a dotted path is found at in the configuration root, or
\* undefined when the path is not found.
FoundAt(root, path) == Walk(root, Split(Trim(path), "."), 1)

\* What a well-formed piece resolves to: literal text stays; a placeholder
\* becomes the string of the value its path is found at, and stays as it is
\* when the path is not found.
ExpectedPiece(piece, root) ==
  IF piece.kind = "lit" THEN piece.text
  ELSE IF FoundAt(root, piece.text) = Undef THEN PieceText(piece)
  ELSE IF JSToString(FoundAt(root, piece.text)).t = "string"
       THEN JSToString(FoundAt(root, piece.text)).s
  ELSE <<>>

RECURSIVE ExpectedText(_, _, _)
ExpectedText(pieces, root, i) ==
  IF i > Len(pieces) THEN <<>>
  ELSE ExpectedPiece(pieces[i], root) \o ExpectedText(pieces, root, i + 1)

MissingPath == <<"m", "i", "s", "s", "i", "n", "g", ".", "p", "a", "t", "h">>

\* { a: "${x.y}", b: [1, "${missing.path}"] }
ExampleInput == InputOf("object", <<Ph(<<"x", ".", "y">>), Ph(MissingPath)>>)

\* { a: "Z", b: [1, "${missing.path}"] }
ExampleOutput ==
  Obj(<<Prop(<<"a">>, Str(<<"Z">>)),
        Prop(<<"b">>, Arr(<<Num(1), Str(<<"$", "{">> \o MissingPath \o <<"}">>)>>))>>)

\* Single placeholders and what they resolve to against LargeRoot.
KnownResults ==
  { <<Ph(<<"x", ".", "y">>), <<"Z">> >>,
    <<Ph(<<"\f", "x", ".", "y", "U+00A0">>), <<"Z">> >>,
    <<Ph(<<"x", ".", "n">>), <<"4", "2">> >>,
    <<Ph(<<"z">>), <<"n", "u", "l", "l">> >>,
    <<Ph(<<"e">>), <<>> >>,
    <<Ph(<<"a">>), <<"$", "{", "b", "}">> >>,
    <<Ph(<<"x">>), ObjectObject>>,
    <<Ph(<<"l">>), <<"1", ",", ",", "Z">> >>,
    <<Ph(<<"x", ".", "y", ".", "0">>), <<"Z">> >>,
    <<Ph(MissingPath), <<"$", "{">> \o MissingPath \o <<"}">> >> }

\* C10 (placeholders): in a string made of literal text and ${path}
\* placeholders, resolveParams raises no error, replaces every placeholder
\* whose path is found in the configuration root by the string of the value
\* found and leaves every other placeholder as it is, delimiters included;
\* the strings inside arrays and objects such as the example's are resolved
\* the same way (what becomes of the keys of an object is the subject of
\* C16); { a: "${x.y}", b: [1, "${missing.path}"] } against { x: { y: "Z" } }
\* gives { a: "Z", b: [1, "${missing.path}"] }.
C10_Placeholders ==
  rPc # "ready" =>
    /\ (/\ rShape \in {"string", "object", "array"}
        /\ \A k \in 1..Len(rPieces) : WellFormed(rPieces[k])) =>
         /\ rPc = "done"
         /\ rOut = Shaped(rShape,
                          ExpectedText(FirstPiece(rPieces), rConfig, 1),
                          ExpectedText(RestPieces(rPieces), rConfig, 1))
    /\ (rData = ExampleInput /\ rConfig = SmallRoot => rOut = ExampleOutput)
    /\ \A kr \in KnownResults :
         rShape = "string" /\ rPieces = <<kr[1]>> /\ rConfig = LargeRoot =>
           rOut = Str(kr[2])


RECURSIVE StringsIn(_)
\* The strings of a value, at any depth.
StringsIn(v) ==
  CASE v.t = "string" -> {v.s}
    [] v.t = "array" -> UNION {StringsIn(v.items[k]) : k \in 1..Len(v.items)}
    [] v.t = "object" -> UNION {StringsIn(v.entries[k].v) : k \in 1..Len(v.entries)}
    [] OTHER -> {}

\* s holds a pattern ${...} whose path is found in the configuration root:
\* any "${" followed, after at least one character, by a "}".
HasFoundPattern(s, root) ==
  \E i \in 1..Len(s), j \in 1..Len(s) :
    /\ j >= i + 3
    /\ s[i] = "$"
    /\ s[i + 1] = "{"
    /\ s[j] = "}"
    /\ FoundAt(root, SubSeq(s, i + 2, j - 1)) # Undef

FullyResolved(v, root) == \A s \in StringsIn(v) : ~HasFoundPattern(s, root)

\* C11 (idempotent on resolved input): a value none of whose strings holds a
\* pattern ${...} with a path found in the configuration root (no pattern at
\* all, or only patterns whose path is not found) is returned structurally
\* equal by resolveParams.
C11_ResolvedInputUnchanged ==
  rPc # "ready" /\ FullyResolved(rData, rConfig) => rOut = rData

\* The task definition resolvedTask was made from.
ResolvedFrom == tasksToRun[PositionOf(LastOf(resolved))]

KeysOf(obj) == {obj.entries[k].k : k \in 1..Len(obj.entries)}

\* C12 (copy-on-resolve): resolving changes neither the configuration
\* document nor the task definition: the document is still one as loaded
\* (its placeholders unresolved) and every selected task is still a task of
\* it; the resolved task has the definition's fields unchanged (id,
\* description, enabled, git: their placeholders are not resolved), and only
\* its params are the resolved ones.
C12_CopyOnResolve ==
  /\ config \in Configs
  /\ \A k \in 1..NumSelected : tasksToRun[k] \in RangeOf(ConfigTasks)
  /\ resolvedTask # Undef =>
       /\ KeysOf(resolvedTask) = KeysOf(ResolvedFrom) \cup {K_params}
       /\ \A key \in KeysOf(resolvedTask) \ {K_params} :
            Get(resolvedTask, key) = Get(ResolvedFrom, key)
       /\ Get(resolvedTask, K_params) =
            IF Get(ResolvedFrom, K_params) = Undef THEN Undef
            ELSE IF Get(ResolvedFrom, K_id) = Str(<<"c">>)
                 THEN Obj(<<Prop(<<"m">>, Str(<<"O">>))>>)
            ELSE Obj(<<Prop(<<"m">>, Str(ProjectName))>>)

\* The second task, whose git.commit holds a placeholder and which has no
\* params, has been resolved after the first, whose params and description
\* hold one.
C12_Witness ==
  /\ Len(resolved) = 2
  /\ LastOf(resolved) = <<"b">>
  /\ Get(resolvedTask, K_git) = Obj(<<Prop(K_commit, Str(ProjectNameRef))>>)
  /\ Get(resolvedTask, K_description) = Str(ProjectNameRef)
  /\ Get(tasksToRun[1], K_params) = Obj(<<Prop(<<"m">>, Str(ProjectNameRef))>>)
  /\ phase[1] = "done"


(***************************************************************************)
(* Properties of handleGitAction.                                          *)
(***************************************************************************)
GitConfigOf == Get(gTask, K_git)
CallSteps == [k \in 1..Len(gCalls) |-> gCalls[k].step]
Rank(step) ==
  CASE step = "add" -> 1
    [] step = "commit" -> 2
    [] step = "push" -> 3
HasKey(obj, key) ==
  obj.t = "object" /\ \E k \in 1..Len(obj.entries) : obj.entries[k].k = key
Logged(entry) == \E k \in 1..Len(gLog) : gLog[k] = entry
Captured(stream) == IF stream.s = <<>> THEN NotAvailable ELSE stream.s

\* C13 (fixed order): whatever the order of the keys of the GitConfig, the
\* subprocesses are started in the order add, commit, push; every subprocess
\* but the last started has completed successfully, so a step is started
\* only after the one before it succeeded; once a subprocess has failed it
\* is the last one started: no commit after a failed add, no push after a
\* failed commit.
C13_FixedOrder ==
  /\ \A i, j \in 1..Len(gCalls) :
       i < j => Rank(gCalls[i].step) < Rank(gCalls[j].step)
  /\ Len(gDone) <= Len(gCalls)
  /\ Len(gDone) >= Len(gCalls) - 1
  /\ gDone = SubSeq(CallSteps, 1, Len(gDone))
  /\ gFailed # <<>> =>
       /\ Len(gDone) = Len(gCalls) - 1
       /\ gFailed[1].step = LastOf(CallSteps)
       /\ gPc \in {"settled", "threw"}

\* A GitConfig written push, commit, add has run as add, commit, push.
C13_Witness ==
  /\ gPc = "returned"
  /\ GitConfigOf.t = "object"
  /\ Len(GitConfigOf.entries) = 3
  /\ GitConfigOf.entries[1].k = K_push
  /\ GitConfigOf.entries[2].k = K_commit
  /\ CallSteps = <<"add", "commit", "push">>
  /\ gDone = <<"add", "commit", "push">>

\* The task has commit === true and no description to commit with.
CommitNeedsDescription ==
  /\ Truthy(GitConfigOf)
  /\ Get(GitConfigOf, K_commit) = Bool(TRUE)
  /\ ~Truthy(Get(gTask, K_description))

\* C14 as stated: a task with commit === true and no description fails
\* before any subprocess is invoked: it never invokes one and never returns
\* normally.
C14_NoSubprocessAtAll ==
  CommitNeedsDescription => gCalls = <<>> /\ gPc # "returned"

\* C14 as amended: a task with commit === true and no description never
\* invokes a commit or push subprocess and never returns normally; the only
\* subprocess it may invoke is the git add of an add step present in the same
\* GitConfig, which runs before the commit step is examined. When the working
\* directory resolves and that git add has succeeded, the failure is
\* gitCommit's configuration error, which the catch block logs without
\* streams and re-raises as the one summarized error.
C14_ConfigErrorBeforeCommit ==
  CommitNeedsDescription =>
    /\ \A k \in 1..Len(gCalls) : gCalls[k].step = "add"
    /\ Len(gCalls) <= 1
    /\ (Truthy(Get(GitConfigOf, K_add)) \/ gCalls = <<>>)
    /\ gPc # "returned"
    /\ (/\ gPc = "threw"
        /\ gFailed = <<>>
        /\ Get(Get(gGlobal, K_project), K_basePath) # Undef
        /\ (Truthy(Get(GitConfigOf, K_add)) => gDone = <<"add">>)) =>
           /\ gCaught = <<NoDescriptionError>>
           /\ gThrown = <<GitOperationFailed>>
           /\ (Truthy(Get(GitConfigOf, K_add)) <=> Len(gCalls) = 1)
           /\ Logged(GitEntry("error", "STDOUT: ", NotAvailable))
           /\ Logged(GitEntry("error", "STDERR: ", NotAvailable))

\* git: {add: ".", commit: true, push: true} without description: git add
\* has run, then gitCommit threw the configuration error.
C14_Witness ==
  /\ CommitNeedsDescription
  /\ Get(GitConfigOf, K_add) = Str(<<".">>)
  /\ Get(GitConfigOf, K_push) = Bool(TRUE)
  /\ Get(gTask, K_description) = Undef
  /\ gPc = "threw"
  /\ CallSteps = <<"add">>
  /\ gDone = <<"add">>
  /\ gCaught = <<NoDescriptionError>>

\* C15 (failure of a subprocess): when the subprocess of a step fails, no
\* further subprocess is started and the success event is not logged; once
\* handleGitAction has resumed from the failed step, the failure and the
\* captured streams (or N/A for an empty stream) are the last things logged
\* and exactly one error, the summarized one, is raised to the caller; until
\* then nothing is raised. The success event is logged only by a call that
\* returns normally with no step failed.
C15_FailureAborts ==
  /\ gFailed # <<>> =>
       /\ Len(gFailed) = 1
       /\ LastOf(CallSteps) = gFailed[1].step
       /\ gPc \in {"settled", "threw"}
       /\ (gPc = "settled" =>
             /\ gThrown = <<>>
             /\ gSettled = <<[step |-> gFailed[1].step, ok |-> FALSE,
                              error |-> gFailed[1].error]>>)
       /\ (gPc = "threw" =>
             /\ gThrown = <<GitOperationFailed>>
             /\ gCaught = <<gFailed[1].error>>
             /\ Len(gLog) >= 3
             /\ SubSeq(gLog, Len(gLog) - 2, Len(gLog)) =
                  <<GitEntry("error", "A Git command failed:", <<>>),
                    GitEntry("error", "STDOUT: ",
                             Captured(Get(gFailed[1].error, K_stdout))),
                    GitEntry("error", "STDERR: ",
                             Captured(Get(gFailed[1].error, K_stderr)))>>)
  /\ Logged(GitEntry("success", "Git actions completed successfully.", <<>>)) =>
       /\ gPc = "returned"
       /\ gFailed = <<>>
       /\ gThrown = <<>>
       /\ gDone = CallSteps

\* git commit has failed in a GitConfig that also asks for a push.
C15_Witness ==
  /\ Len(gFailed) = 1
  /\ gFailed[1].step = "commit"
  /\ Get(gFailed[1].error, K_stderr) = Str(<<"f">>)
  /\ Truthy(Get(GitConfigOf, K_push))
  /\ CallSteps = <<"add", "commit">>
  /\ gPc = "threw"

\* C17 (only the steps present): a task without git configuration makes
\* handleGitAction return normally with nothing invoked, logged or raised;
\* for every GitConfig (a mapping), every subprocess invoked is that of a
\* step whose key the GitConfig has, with a truthy value; no step is invoked
\* twice.
C17_OnlyPresentSteps ==
  /\ ~Truthy(GitConfigOf) /\ gPc # "ready" =>
       /\ gPc = "returned"
       /\ gCalls = <<>>
       /\ gLog = <<>>
       /\ gThrown = <<>>
  /\ \A k \in 1..Len(gCalls) :
       /\ GitConfigOf.t = "object" =>
            /\ HasKey(GitConfigOf, StepKey(gCalls[k].step))
            /\ Truthy(Get(GitConfigOf, StepKey(gCalls[k].step)))
       /\ \A j \in 1..Len(gCalls) : gCalls[j].step = gCalls[k].step => j = k

\* A GitConfig with a commit message only has run git commit only.
C17_Witness ==
  /\ gPc = "returned"
  /\ GitConfigOf = Obj(<<Prop(K_commit, Str(<<"m">>))>>)
  /\ Len(gCalls) = 1
  /\ gCalls[1].step = "commit"
  /\ Logged(GitEntry("success", "Git actions completed successfully.", <<>>))

(***************************************************************************)
(* Properties of resolveParams: structure, termination.                    *)
(***************************************************************************)
RECURSIVE SameStructure(_, _)
\* out has the structure of data: a string for a string, a sequence of the
\* same length with each element so related, a mapping with exactly the same
\* keys with each value so related, and the same value for anything else.
SameStructure(data, out) ==
  CASE data.t = "string" -> out.t = "string"
    [] data.t = "array" ->
         /\ out.t = "array"
         /\ Len(out.items) = Len(data.items)
         /\ \A k \in 1..Len(data.items) :
              SameStructure(data.items[k], out.items[k])
    [] data.t = "object" ->
         /\ out.t = "object"
         /\ DOMAIN out = DOMAIN data
         /\ Len(out.entries) = Len(data.entries)
         /\ \A k \in 1..Len(data.entries) :
              /\ out.entries[k].k = data.entries[k].k
              /\ SameStructure(data.entries[k].v, out.entries[k].v)
    [] OTHER -> out = data

\* C16 (structure): resolveParams returns a value with the structure of its
\* input: sequences keep their length and order, mappings keep exactly their
\* keys, numbers, booleans and null are returned unchanged.
C16_StructurePreserved ==
  rPc = "done" => SameStructure(rData, rOut)

\* sub occurs in s.
Contains(s, sub) ==
  \E i \in 0..(Len(s) - Len(sub)) : SubSeq(s, i + 1, i + Len(sub)) = sub

CyclicA == Ph(<<"a">>)
InsertedForA == <<"$", "{", "b", "}">>

\* C18 (termination, single pass): resolveParams has an outcome (a value of
\* the type of its input, or an error thrown) for every input and
\* configuration root of the model, among them the root whose values refer
\* to each other (a = "${b}", b = "${a}");
\* the text substituted for a placeholder is inserted as it is and not
\* scanned again: a string of placeholders ${a} and literal text resolves,
\* against that root, to a string that still holds the placeholder ${b} for
\* every ${a}, and the single placeholder ${a} resolves to "${b}".
C18_SinglePass ==
  /\ rPc = "ready" => resolveParams(rData, rConfig).t \in {rData.t, "throw"}
  /\ rPc = "done" => rOut.t = rData.t
  /\ rPc = "threw" => rOut.t = "throw"
  /\ (/\ rPc = "done"
      /\ rShape = "string"
      /\ rConfig = LargeRoot
      /\ \A k \in 1..Len(rPieces) : rPieces[k] \in {CyclicA, Lit(<<"p">>)}) =>
       /\ rOut = Str(ExpectedText(rPieces, rConfig, 1))
       /\ (rPieces = <<CyclicA>> => rOut = Str(InsertedForA))
       /\ \A k \in 1..Len(rPieces) :
            rPieces[k] = CyclicA => Contains(rOut.s, InsertedForA)

\* "${a}${a}" has been resolved against the root with a = "${b}", b = "${a}".
C18_Witness ==
  /\ rPc = "done"
  /\ rShape = "string"
  /\ rConfig = LargeRoot
  /\ rPieces = <<CyclicA, CyclicA>>
  /\ rOut = Str(InsertedForA \o InsertedForA)

(***************************************************************************)
(* Properties of the whole run.                                            *)
(***************************************************************************)
ConfigIds == [k \in 1..Len(ConfigTasks) |-> TaskIdOf(ConfigTasks[k])]
ConfigTaskOf(id) == ConfigTasks[CHOOSE k \in 1..Len(ConfigTasks) : ConfigIds[k] = id]

\* The prompt of task `id` was answered true.
Confirmed(id) ==
  \E n \in 1..Len(answers) : prompted[n] = id /\ answers[n] = Bool(TRUE)

\* C19 (run invariant): the tasks executed so far are, in the order of their
\* execution, configured tasks in configuration order, each at most once;
\* so are the tasks prompted for, even when the command line repeats an id;
\* every executed task is enabled (its enabled is not false), selected (a
\* selected task, named by the command line when it names any) and confirmed
\* by its prompt or run under --yes.
C19_RunInvariant ==
  pc # "Off" =>
    /\ executed = Restrict(ConfigIds, RangeOf(executed))
    /\ prompted = Restrict(ConfigIds, RangeOf(prompted))
    /\ invoked = Restrict(ConfigIds, RangeOf(invoked))
    /\ \A n \in 1..Len(executed) :
         LET id == executed[n]
         IN /\ Get(ConfigTaskOf(id), K_enabled) # Bool(FALSE)
            /\ \E k \in 1..NumSelected : SelectedId(k) = id
            /\ (Truthy(argv.tasks) => CliNames(id))
            /\ (Truthy(argv.yes) \/ Confirmed(id))
            /\ (Truthy(argv.yes) => ~Occurs(prompted, id))

\* --tasks "b,b" over a configuration with a and b: b was prompted for once
\* and executed once.
C19_Witness ==
  /\ argv.tasks = Str(<<"b", ",", "b">>)
  /\ argv.yes = Undef
  /\ Len(ConfigTasks) >= 2
  /\ prompted = << <<"b">> >>
  /\ answers = <<Bool(TRUE)>>
  /\ executed = << <<"b">> >>
  /\ pc = "Finished"

\* No more tasks are processed than were selected.
BoundedWork ==
  /\ Len(prompted) <= NumSelected
  /\ Len(resolved) <= NumSelected
  /\ Len(executed) <= NumSelected
  /\ Len(invoked) <= NumSelected
  /\ cur <= NumSelected + 1

\* The terminal states of a run: finished or cancelled with status 0, halted
\* on a failed task with status 1.
Terminated ==
  \/ pc \in {"Finished", "Cancelled"} /\ exit = <<0>>
  \/ pc = "Halted" /\ exit = <<1>>

\* C20 (liveness): when every prompt is eventually answered and every
\* awaited step eventually settles, every run main starts eventually reaches
\* one of the terminal states (Finished with status 0, Halted with status 1,
\* Cancelled with status 0), and never processes more tasks than were
\* selected.  A run that waits for a module or a handler that never settles
\* is outside the claim's proviso.
C20_Terminates ==
  (pc = "Idle" ~> (Terminated \/ pc = "Stalled")) /\ []BoundedWork

=============================================================================
